---- MODULE Spec2Model ----
(***************************************************************************)
(* A model of the streaming pipeline of stock-market-anomaly-detection:    *)
(*   - configs/websocket_config.py   entitlement resolver, channel builder *)
(*   - src/data/stream_data.py       equity connection and detector        *)
(*   - src/data/stream_crypto.py     crypto connection and detector        *)
(*   - src/data/stream_manager.py    thread-based supervisor               *)
(*   - src/data/stream_orchestrator.py  process-based supervisor           *)
(* Each subsystem has its own specification (SpecConfig, SpecDetector,     *)
(* ...); a specification leaves the variables of the other subsystems at   *)
(* their initial values.                                                   *)
(***************************************************************************)
EXTENDS Integers, Sequences, FiniteSets, TLC

VARIABLES
    \* ---- configs/websocket_config.py ----
    env_tier,             \* os.environ: POLYGON_TIER_<ASSET>, or Unset
    env_url,              \* os.environ: POLYGON_WS_URL_<ASSET>, or Unset
    asset_subscriptions,  \* WebSocketConfig.asset_subscriptions
    result,               \* the last call on the configuration and what it returned
    request,              \* the arguments of the get_subscription_channels calls
    returns,              \* what each get_subscription_channels call returned, in order
    \* ---- the detectors (RealTimeDataProcessor, CryptoDataProcessor) ----
    detector,             \* which processor object was constructed
    data_store,           \* RealTimeDataProcessor.data_store: symbol -> window
    recent_data,          \* CryptoDataProcessor.recent_data: symbol -> deque
    anomalies,            \* the anomaly events emitted so far, in order
    data,                 \* the tick last handed to process_data
    proc_error,           \* the exception the last process_data call raised
    anomaly_table,        \* the rows of the anomalies table, in insertion order
    anomaly_stored,       \* what each store_anomaly call returned, in order
    anomaly_callbacks,    \* processor.anomaly_callbacks, in registration order
    notified,             \* what the detections did, in order: callbacks, store calls
    \* ---- one connection (PolygonWebSocketClient, CryptoWebSocketClient) ----
    client,               \* the client object: kind, transport, flags, requests sent
    data_handlers,        \* client.data_handlers, in registration order
    calls,                \* per handler: the data messages it was called with
    data_buffer,          \* PolygonWebSocketClient.data_buffer
    market_data,          \* rows store_market_data inserted (crypto client)
    inbound,              \* the number of data messages received so far
    received,             \* the status values the current transport has delivered
    dispatched,           \* the handler calls made so far, in the order they were made
    \* ---- the persistence store (database.py, backfill_historical.py) ----
    db_log,               \* the store calls made so far and what they returned
    \* ---- the thread supervisor (stream_manager.py) ----
    mgr_running,          \* StreamManager.is_running
    mgr_pc,               \* where the main thread is in start_all / _start_streams
    streams,              \* StreamManager.streams: asset |-> the AssetStream's fields
    threads,              \* every worker thread started so far, with its client
    asset_types,          \* main()'s args.assets: the asset classes asked for
    \* ---- the process supervisor (stream_orchestrator.py) ----
    orch_running,         \* StreamOrchestrator.running
    orch_pc,              \* where the orchestrator is in start / monitor_streams
    processes,            \* StreamOrchestrator.processes: asset |-> its latest child
    procs,                \* every child process started so far, with its client
    \* ---- the wall clock ----
    market_open           \* the local time is within the 09:30-16:00 schedule

cfgVars == <<env_tier, env_url, asset_subscriptions, result>>
chanVars == <<request, returns>>
detVars == <<detector, data_store, recent_data, anomalies, data, proc_error,
             anomaly_table, anomaly_stored, anomaly_callbacks, notified>>
connVars == <<client, data_handlers, calls, data_buffer, market_data, inbound, received,
              dispatched>>
storeVars == <<db_log>>
mgrVars == <<mgr_running, mgr_pc, streams, threads, asset_types>>
orchVars == <<orch_running, orch_pc, processes, procs>>
clockVars == <<market_open>>
vars == <<cfgVars, chanVars, detVars, connVars, storeVars, mgrVars, orchVars, clockVars>>
\* what an action of one subsystem leaves alone
notCfg == <<chanVars, detVars, connVars, storeVars, mgrVars, orchVars, clockVars>>
notChan == <<detVars, connVars, storeVars, mgrVars, orchVars, clockVars>>
notDet == <<cfgVars, chanVars, connVars, storeVars, mgrVars, orchVars, clockVars>>
notConn == <<cfgVars, chanVars, detVars, storeVars, mgrVars, orchVars, clockVars>>
notStore == <<cfgVars, chanVars, detVars, mgrVars, orchVars, clockVars>>
notMgr == <<cfgVars, chanVars, detVars, connVars, storeVars, orchVars>>
notOrch == <<cfgVars, chanVars, detVars, connVars, storeVars, mgrVars>>

Unset == "<unset>"
NoResult == [op |-> "none"]

(***************************************************************************)
(* Bounds of the model.                                                    *)
(***************************************************************************)
\* asset classes with an explicit POLYGON_TIER_* setting in the environment
MaxConfigured == 1
\* symbols in one get_subscription_channels request
MaxSymbols == 2
\* data type codes in one get_subscription_channels request
MaxCodes == 2
\* get_subscription_channels calls with the same arguments
MaxCalls == 2
\* ticks handed to one detector
MaxTicks == 6
\* handlers registered on one connection
MaxHandlers == 2
\* data messages received on one connection
MaxMessages == 2
\* requests sent on one connection
MaxRequests == 3
\* calls on the persistence store
MaxStoreCalls == 2
\* rows of one backfill DataFrame
MaxRows == 2
\* aggregates in one inbound array
MaxItems == 2
\* the items one worker receives in all
MaxInbound == 2
\* the ticks of a long run of one symbol: past the capacity of the window
MaxEquityRun == 22
MaxCryptoRun == 12
\* worker threads one supervisor starts
MaxThreads == 2
\* child processes one orchestrator starts
MaxProcs == 3

(***************************************************************************)
(* configs/websocket_config.py                                             *)
(***************************************************************************)
AssetType == {"stocks", "crypto", "forex", "indices", "options", "futures"}

BASIC == "basic"
STARTER == "starter"
DEVELOPER == "developer"
ADVANCED == "advanced"
SubscriptionTier == {BASIC, STARTER, DEVELOPER, ADVANCED}

WEBSOCKET_ENABLED_TIERS == {STARTER, DEVELOPER, ADVANCED}

WEBSOCKET_BASE_URLS ==
    [t \in WEBSOCKET_ENABLED_TIERS |->
        IF t = STARTER THEN "wss://delayed.polygon.io" ELSE "wss://socket.polygon.io"]

\* The values a POLYGON_TIER_* variable takes in the model: the four tier
\* names, a tier name in another case, an unknown name and the empty string.
TierSettings == {"basic", "starter", "developer", "advanced", "Starter", "premium", ""}

\* str.lower() on the settings above
Lower(s) ==
    IF s = "Starter" THEN "starter" ELSE s

\* a loader that takes a name it does not know for the lowest paid tier
LoadTier_UnknownIsStarter(setting) ==
    IF setting = Unset THEN BASIC
    ELSE IF setting \in SubscriptionTier THEN setting ELSE STARTER

\* os.getenv(env_key, 'basic'), then SubscriptionTier(tier_str.lower()) with
\* ValueError falling back to BASIC
LoadTier(setting) ==
    LET tier_str == IF setting = Unset THEN "basic" ELSE setting
    IN  IF Lower(tier_str) \in SubscriptionTier THEN Lower(tier_str) ELSE BASIC

\* The values a POLYGON_WS_URL_* variable takes in the model.
UrlSettings == {"", "wss://override.example"}

get_subscription_tier(a) == asset_subscriptions[a]

has_websocket_access(a) == asset_subscriptions[a] \in WEBSOCKET_ENABLED_TIERS

ValueError == [ok |-> FALSE, error |-> "ValueError"]
Returns(v) == [ok |-> TRUE, value |-> v]

get_websocket_url(a) ==
    IF env_url[a] # Unset /\ env_url[a] # ""
    THEN Returns(env_url[a])
    ELSE LET tier == get_subscription_tier(a)
         IN  IF tier \notin WEBSOCKET_ENABLED_TIERS
             THEN ValueError
             ELSE LET base_url == IF a = "crypto" /\ tier = STARTER
                                  THEN WEBSOCKET_BASE_URLS[DEVELOPER]
                                  ELSE WEBSOCKET_BASE_URLS[tier]
                  IN  Returns(base_url \o "/" \o a)

\* The environments of the model: at most MaxConfigured asset classes have a
\* tier setting, and at most one has an endpoint override.
Environments ==
    UNION {{[a \in AssetType |-> IF a \in S THEN f[a] ELSE Unset] : f \in [S -> TierSettings]} :
              S \in {T \in SUBSET AssetType : Cardinality(T) <= MaxConfigured}}

Overrides ==
    {[a \in AssetType |-> IF a = x THEN u ELSE Unset] :
        x \in AssetType, u \in UrlSettings \cup {Unset}}

\* WebSocketConfig.__init__
ConfigInit ==
    /\ env_tier \in Environments
    /\ env_url \in Overrides
    /\ asset_subscriptions = [a \in AssetType |-> LoadTier(env_tier[a])]
    /\ result = NoResult

ConfigIdle ==
    /\ env_tier = <<>>
    /\ env_url = <<>>
    /\ asset_subscriptions = <<>>
    /\ result = NoResult

GetWebsocketUrl(a) ==
    /\ result' = [op |-> "get_websocket_url", asset |-> a, ret |-> get_websocket_url(a)]
    /\ UNCHANGED <<env_tier, env_url, asset_subscriptions>>
    /\ UNCHANGED notCfg

HasWebsocketAccess(a) ==
    /\ result' = [op |-> "has_websocket_access", asset |-> a,
                  ret |-> Returns(has_websocket_access(a))]
    /\ UNCHANGED <<env_tier, env_url, asset_subscriptions>>
    /\ UNCHANGED notCfg

\* DATA_TYPES: the codes of each asset class, in the order of the dict
DATA_TYPES ==
    [a \in AssetType |->
        CASE a = "stocks"  -> <<"A", "AM", "AS", "T", "Q">>
          [] a = "crypto"  -> <<"XA", "XAS", "XT", "XQ", "XL2">>
          [] a = "forex"   -> <<"C", "CA">>
          [] a = "indices" -> <<"I:SPX", "V", "A">>
          [] a = "options" -> <<"T", "Q", "A">>
          [] a = "futures" -> <<"A", "T", "Q">>]

RestrictedCodes == {"AS", "XAS", "T", "XT", "Q", "XQ", "XL2"}

TIER_RESTRICTED_DATA_TYPES ==
    [code \in RestrictedCodes |-> IF code = "XL2" THEN ADVANCED ELSE DEVELOPER]

tier_hierarchy == <<BASIC, STARTER, DEVELOPER, ADVANCED>>

\* list.index
Index(seq, x) == CHOOSE i \in 1..Len(seq) : seq[i] = x /\ \A j \in 1..(i - 1) : seq[j] # x

\* a comparison that asks for a tier above the required one
tier_meets_requirement_Above(current_tier, required_tier) ==
    Index(tier_hierarchy, current_tier) > Index(tier_hierarchy, required_tier)

\* _tier_meets_requirement
tier_meets_requirement(current_tier, required_tier) ==
    Index(tier_hierarchy, current_tier) >= Index(tier_hierarchy, required_tier)

\* the elements of a sequence
Range(seq) == {seq[i] : i \in 1..Len(seq)}

\* get_available_data_types: the keys of the returned dict, in order
get_available_data_types(a, include_restricted) ==
    LET all_types == DATA_TYPES[a]
        tier == get_subscription_tier(a)
        Available(code) ==
            \/ code \notin DOMAIN TIER_RESTRICTED_DATA_TYPES
            \/ tier_meets_requirement(tier, TIER_RESTRICTED_DATA_TYPES[code])
    IN  IF include_restricted THEN all_types ELSE SelectSeq(all_types, Available)

GetAvailableDataTypes(a, include_restricted) ==
    /\ result' = [op |-> "get_available_data_types", asset |-> a,
                  include_restricted |-> include_restricted,
                  ret |-> Returns(get_available_data_types(a, include_restricted))]
    /\ UNCHANGED <<env_tier, env_url, asset_subscriptions>>
    /\ UNCHANGED notCfg

(***************************************************************************)
(* The channel builder: WebSocketConfig.get_subscription_channels.         *)
(***************************************************************************)
Raises(message) == [ok |-> FALSE, error |-> "ValueError", message |-> message]

\* the defaults dict of get_subscription_channels
DefaultDataTypes_Every(a) == DATA_TYPES[a]

DefaultDataTypes(a) ==
    CASE a = "stocks"  -> <<"A">>
      [] a = "crypto"  -> <<"XA">>
      [] a = "forex"   -> <<"C">>
      [] a = "indices" -> <<"V">>
      [] a = "options" -> <<"A">>
      [] a = "futures" -> <<"A">>

\* the codes the validation loop tests: for dt in data_types
Validated_FirstOnly(data_types) ==
    IF data_types = <<>> THEN <<>> ELSE <<Head(data_types)>>

Validated(data_types) == data_types

\* channels = []: every call builds a fresh list
NewChannels_Kept(earlier) ==
    IF earlier # <<>> /\ earlier[Len(earlier)].ok THEN earlier[Len(earlier)].value ELSE <<>>

NewChannels(earlier) == <<>>

\* for symbol in symbols: channels.append(f"{data_type}.{symbol}")
RECURSIVE AppendSymbols(_, _, _)
AppendSymbols(channels, data_type, symbols) ==
    IF symbols = <<>> THEN channels
    ELSE AppendSymbols(Append(channels, data_type \o "." \o Head(symbols)), data_type, Tail(symbols))

\* for data_type in data_types: for symbol in symbols: ...
RECURSIVE AppendChannels(_, _, _)
AppendChannels(channels, data_types, symbols) ==
    IF data_types = <<>> THEN channels
    ELSE AppendChannels(AppendSymbols(channels, Head(data_types), symbols), Tail(data_types), symbols)

\* the two loops the other way round: for symbol in symbols: for data_type in data_types
RECURSIVE BuildChannels_SymbolsOuter(_, _, _)
BuildChannels_SymbolsOuter(channels, data_types, symbols) ==
    IF symbols = <<>> THEN channels
    ELSE BuildChannels_SymbolsOuter(
             channels \o [i \in 1..Len(data_types) |-> data_types[i] \o "." \o Head(symbols)],
             data_types, Tail(symbols))

BuildChannels(channels, data_types, symbols) == AppendChannels(channels, data_types, symbols)

\* get_subscription_channels(asset_type, symbols, data_types); given is FALSE
\* when data_types is None; earlier is what the calls before this one returned
get_subscription_channels(a, symbols, given, codes, earlier) ==
    IF ~has_websocket_access(a) THEN Raises("WebSocket not available")
    ELSE LET data_types == IF given THEN codes ELSE DefaultDataTypes(a)
             available_types == Range(get_available_data_types(a, FALSE))
         IN  IF \E i \in 1..Len(Validated(data_types)) : Validated(data_types)[i] \notin available_types
             THEN Raises("Data type not available")
             ELSE Returns(BuildChannels(NewChannels(earlier), data_types, symbols))

\* the symbols and codes of the requests of the model: an open equity code,
\* a developer code, an advanced crypto code and a code nobody knows
RequestSymbols == {"AAPL", "MSFT"}
RequestCodes == {"A", "T", "XL2", "ZZ"}

\* the sequences over S of length at most n
SeqsUpTo(S, n) == UNION {[1..k -> S] : k \in 0..n}

Requests ==
    {[asset |-> a, symbols |-> symbols, given |-> TRUE, data_types |-> codes] :
        a \in AssetType, symbols \in SeqsUpTo(RequestSymbols, MaxSymbols),
        codes \in SeqsUpTo(RequestCodes, MaxCodes)}
    \cup
    {[asset |-> a, symbols |-> symbols, given |-> FALSE, data_types |-> <<>>] :
        a \in AssetType, symbols \in SeqsUpTo(RequestSymbols, MaxSymbols)}

\* one asset class has a tier setting
ChannelEnvironments ==
    {[a \in AssetType |-> IF a = x THEN t ELSE Unset] : x \in AssetType, t \in TierSettings}

\* one call of get_subscription_channels with the request's arguments
GetSubscriptionChannels ==
    /\ Len(returns) < MaxCalls
    /\ returns' = Append(returns,
                         get_subscription_channels(request.asset, request.symbols,
                                                   request.given, request.data_types, returns))
    /\ UNCHANGED <<env_tier, env_url, asset_subscriptions, result, request>>
    /\ UNCHANGED notChan

NoRequest == [asset |-> "none"]

\* a loaded configuration and the arguments of the calls to come
ChannelsInit ==
    /\ env_tier \in ChannelEnvironments
    /\ env_url = [a \in AssetType |-> Unset]
    /\ asset_subscriptions = [a \in AssetType |-> LoadTier(env_tier[a])]
    /\ result = NoResult
    /\ request \in Requests
    /\ returns = <<>>

ChannelsIdle ==
    /\ request = NoRequest
    /\ returns = <<>>

(***************************************************************************)
(* The detectors: RealTimeDataProcessor (src/data/stream_data.py) and      *)
(* CryptoDataProcessor (src/data/stream_crypto.py).                        *)
(*                                                                         *)
(* A tick is the dict handed to process_data, reduced to the fields the    *)
(* detectors read: symbol ('symbol' / 'pair'), price ('close' / 'c'),      *)
(* volume ('volume' / 'v') and timestamp ('timestamp' / 's').  Python      *)
(* computes the average and the multiplier in floating point; the model    *)
(* computes them as exact fractions <<numerator, denominator>>.            *)
(***************************************************************************)
EquityCapacity == 20
CryptoCapacity == 10
EquityMinimumData == 5
CryptoMinimumData == 5
EquityMultiple == 3
volume_threshold == 2

Symbols == {"AAPL", "MSFT"}
Pairs == {"BTC-USD", "ETH-USD"}

\* The ticks of the model.  The first symbol of a class takes every shape,
\* the second one a plain tick.
Shapes(sym, first) ==
    IF sym = first
    THEN {[symbol |-> sym, price |-> 1, volume |-> 100],
          [symbol |-> sym, price |-> 1, volume |-> 300],
          [symbol |-> sym, price |-> 1, volume |-> 400],
          [symbol |-> sym, price |-> 1, volume |-> 0],
          [symbol |-> sym, price |-> 0, volume |-> 100]}
    ELSE {[symbol |-> sym, price |-> 1, volume |-> 100]}

EquityTicks == UNION {Shapes(s, "AAPL") : s \in Symbols}
CryptoTicks == UNION {Shapes(s, "BTC-USD") : s \in Pairs}

NoTick == [symbol |-> "", price |-> 0, volume |-> 0, timestamp |-> 0]
Stamp(t, ts) == [symbol |-> t.symbol, price |-> t.price, volume |-> t.volume, timestamp |-> ts]

RECURSIVE GCD(_, _)
GCD(a, b) == IF b = 0 THEN a ELSE GCD(b, a % b)

\* n / d as a fraction in lowest terms (d > 0, n >= 0)
Frac(n, d) == LET g == GCD(n, d) IN <<n \div g, d \div g>>

RECURSIVE SumSeq(_)
SumSeq(q) == IF q = <<>> THEN 0 ELSE Head(q) + SumSeq(Tail(q))

\* a slice that keeps the oldest k
LastN_Oldest(q, k) == IF Len(q) <= k THEN q ELSE SubSeq(q, 1, k)

\* q[-k:]
LastN(q, k) == IF Len(q) <= k THEN q ELSE SubSeq(q, Len(q) - k + 1, Len(q))
\* q[:-1]
AllButLast(q) == SubSeq(q, 1, Len(q) - 1)

NoOutcome == [events |-> <<>>, error |-> "none"]

\* ---- RealTimeDataProcessor ----
\* a weaker history check: one observation short of the minimum
EquityNeedsData_OneShort(recent_volumes) == Len(recent_volumes) < EquityMinimumData - 1

\* len(store['recent_volumes']) < 5: return
EquityNeedsData(recent_volumes) == Len(recent_volumes) < EquityMinimumData

\* a stricter spike test: only above 4x the average
EquitySpike_FourTimes(current_volume, total, n) == current_volume * n > total * (EquityMultiple + 1)

\* current_volume > avg_volume * 3, with avg_volume = total / n
EquitySpike(current_volume, total, n) == current_volume * n > total * EquityMultiple

\* RealTimeDataProcessor._check_for_anomalies: the events emitted and the
\* exception raised
check_for_anomalies(symbol, recent_volumes, d) ==
    IF EquityNeedsData(recent_volumes) THEN NoOutcome
    ELSE LET current_volume == d.volume
             total == SumSeq(AllButLast(recent_volumes))
             n == Len(recent_volumes) - 1
         IN  IF ~EquitySpike(current_volume, total, n) THEN NoOutcome
             ELSE IF total = 0
                  THEN [events |-> <<>>, error |-> "ZeroDivisionError"]
                  ELSE [events |-> <<[type |-> "volume_spike",
                                      symbol |-> symbol,
                                      timestamp |-> d.timestamp,
                                      current_volume |-> current_volume,
                                      average_volume |-> Frac(total, n),
                                      multiplier |-> Frac(current_volume * n, total)]>>,
                        error |-> "none"]

\* for callback in self.anomaly_callbacks: try: callback(anomaly) except: log
\* (the calls made for the n-th event, whether or not a callback raised)
NotifyCallbacks(callbacks, n) ==
    [k \in 1..Len(callbacks) |-> [op |-> "callback", callback |-> k, event |-> n]]

\* what a detection of the equity processor does with its events: the
\* callbacks, and no store call
RECURSIVE EquityNotify(_, _, _)
EquityNotify(events, callbacks, n) ==
    IF events = <<>> THEN <<>>
    ELSE NotifyCallbacks(callbacks, n + 1) \o EquityNotify(Tail(events), callbacks, n + 1)

\* what a detection of the crypto processor does with its events:
\* store_anomaly first, then the callbacks
RECURSIVE CryptoNotify(_, _, _)
CryptoNotify(events, callbacks, n) ==
    IF events = <<>> THEN <<>>
    ELSE <<[op |-> "store_anomaly", event |-> n + 1]>> \o NotifyCallbacks(callbacks, n + 1)
             \o CryptoNotify(Tail(events), callbacks, n + 1)

\* one window that every symbol shares
WindowFor_Shared(windows, symbol, empty) ==
    IF DOMAIN windows = {} THEN empty
    ELSE windows[CHOOSE s \in DOMAIN windows : TRUE]

\* self.data_store[symbol] after "if symbol not in self.data_store";
\* self.recent_data[symbol] of the defaultdict: the symbol's own window,
\* empty at its first tick
WindowFor(windows, symbol, empty) ==
    IF symbol \in DOMAIN windows THEN windows[symbol] ELSE empty

NewStore == [recent_prices |-> <<>>, recent_volumes |-> <<>>, last_price |-> 0, last_volume |-> 0]

\* RealTimeDataProcessor.process_data -> _process_aggregate, on the tick t
process_aggregate(t) ==
    /\ LET d == Stamp(t, data.timestamp + 1)
           symbol == d.symbol
           store == WindowFor(data_store, symbol, NewStore)
           prices == LastN(Append(store.recent_prices, d.price), EquityCapacity)
           volumes == LastN(Append(store.recent_volumes, d.volume), EquityCapacity)
           out == check_for_anomalies(symbol, volumes, d)
           raised == out.error # "none"
           updated == [recent_prices |-> prices,
                       recent_volumes |-> volumes,
                       last_price |-> IF raised THEN store.last_price ELSE d.price,
                       last_volume |-> IF raised THEN store.last_volume ELSE d.volume]
       IN  /\ data' = d
           /\ data_store' = [s \in DOMAIN data_store \cup {symbol} |->
                                IF s = symbol THEN updated ELSE data_store[s]]
           /\ anomalies' = anomalies \o out.events
           /\ notified' = notified \o EquityNotify(out.events, anomaly_callbacks, Len(anomalies))
           /\ proc_error' = out.error
    /\ UNCHANGED <<detector, recent_data, anomaly_table, anomaly_stored, anomaly_callbacks>>
    /\ UNCHANGED notDet

\* one aggregate handed to the equity processor
ProcessAggregate(t) ==
    /\ detector = "stocks"
    /\ data.timestamp < MaxTicks
    /\ process_aggregate(t)

\* a long run of one symbol: the aggregate after ts others, each with a
\* volume of its own
EquityRunTicks(ts) == {[symbol |-> "AAPL", price |-> 1, volume |-> 101 + ts]}

ProcessAggregateRun(t) ==
    /\ detector = "stocks"
    /\ data.timestamp < MaxEquityRun
    /\ process_aggregate(t)

\* ---- CryptoDataProcessor ----
\* len(recent_volumes) < 5: return
CryptoNeedsData(recent_volumes) == Len(recent_volumes) < CryptoMinimumData

\* multiplier >= self.volume_threshold, with multiplier = current / (total / n)
CryptoSpike(current_volume, total, n) == current_volume * n >= total * volume_threshold

\* CryptoDataProcessor.check_volume_anomaly: the events emitted
check_volume_anomaly(symbol, recent_volumes, current_volume, ts) ==
    IF CryptoNeedsData(recent_volumes) THEN NoOutcome
    ELSE LET total == SumSeq(AllButLast(recent_volumes))
             n == Len(recent_volumes) - 1
         IN  IF total > 0 /\ CryptoSpike(current_volume, total, n)
             THEN [events |-> <<[type |-> "volume_spike",
                                 symbol |-> symbol,
                                 timestamp |-> ts,
                                 current_volume |-> current_volume,
                                 average_volume |-> Frac(total, n),
                                 multiplier |-> Frac(current_volume * n, total)]>>,
                   error |-> "none"]
             ELSE NoOutcome

\* a store that keeps one row per symbol
store_anomaly_OnePerSymbol(table, asset_type, anomaly, db_ok) ==
    IF db_ok /\ \A i \in 1..Len(table) : table[i].symbol # anomaly.symbol
    THEN [table |-> Append(table, [symbol |-> anomaly.symbol,
                                   asset_type |-> asset_type,
                                   anomaly_type |-> anomaly.type,
                                   multiplier |-> anomaly.multiplier,
                                   status |-> "detected"]),
          ret |-> TRUE]
    ELSE [table |-> table, ret |-> db_ok]

\* store_anomaly(asset_type, anomaly): one INSERT INTO anomalies inside
\* get_db_cursor; the status column is not given and takes its default
\* 'detected'; an exception is logged and False returned
store_anomaly(table, asset_type, anomaly, db_ok) ==
    IF db_ok
    THEN [table |-> Append(table, [symbol |-> anomaly.symbol,
                                   asset_type |-> asset_type,
                                   anomaly_type |-> anomaly.type,
                                   multiplier |-> anomaly.multiplier,
                                   status |-> "detected"]),
          ret |-> TRUE]
    ELSE [table |-> table, ret |-> FALSE]

\* check_volume_anomaly's store_anomaly('crypto', anomaly) for each event
RECURSIVE StoreEvents(_, _, _, _)
StoreEvents(events, table, rets, db_ok) ==
    IF events = <<>> THEN [table |-> table, rets |-> rets]
    ELSE LET r == store_anomaly(table, "crypto", Head(events), db_ok)
         IN  StoreEvents(Tail(events), r.table, Append(rets, r.ret), db_ok)

\* volume <= 0 or close_price <= 0: return
CryptoIgnores(d) == d.volume <= 0 \/ d.price <= 0

\* CryptoDataProcessor.process_data, on the tick t
process_data(t, db_ok) ==
    /\ LET d == Stamp(t, data.timestamp + 1)
           symbol == d.symbol
           window == WindowFor(recent_data, symbol, <<>>)
           entry == [volume |-> d.volume, price |-> d.price, timestamp |-> d.timestamp]
           appended == LastN(Append(window, entry), CryptoCapacity)
           volumes == [i \in 1..Len(appended) |-> appended[i].volume]
           out == check_volume_anomaly(symbol, volumes, d.volume, d.timestamp)
           kept == StoreEvents(out.events, anomaly_table, anomaly_stored, db_ok)
       IN  /\ data' = d
           /\ IF CryptoIgnores(d)
              THEN UNCHANGED <<recent_data, anomalies, anomaly_table, anomaly_stored, notified>>
              ELSE /\ recent_data' = [s \in DOMAIN recent_data \cup {symbol} |->
                                         IF s = symbol THEN appended ELSE recent_data[s]]
                   /\ anomalies' = anomalies \o out.events
                   /\ anomaly_table' = kept.table
                   /\ anomaly_stored' = kept.rets
                   /\ notified' = notified \o CryptoNotify(out.events, anomaly_callbacks,
                                                            Len(anomalies))
           /\ proc_error' = "none"
    /\ UNCHANGED <<detector, data_store, anomaly_callbacks>>
    /\ UNCHANGED notDet

\* one tick handed to the crypto processor
CryptoProcessData(t, db_ok) ==
    /\ detector = "crypto"
    /\ data.timestamp < MaxTicks
    /\ process_data(t, db_ok)

\* a long run of one pair: the tick after ts others, with a volume of its
\* own, or one without volume
CryptoRunTicks(ts) ==
    {[symbol |-> "BTC-USD", price |-> 1, volume |-> 101 + ts],
     [symbol |-> "BTC-USD", price |-> 1, volume |-> 0]}

CryptoProcessDataRun(t, db_ok) ==
    /\ detector = "crypto"
    /\ data.timestamp < MaxCryptoRun
    /\ process_data(t, db_ok)

\* the callbacks registered with add_anomaly_callback before the stream
\* starts: none, or one that raises followed by one that returns
CallbackLists == {<<>>, <<"raises", "ok">>}

DetectorInit ==
    /\ detector \in {"stocks", "crypto"}
    /\ anomaly_callbacks \in CallbackLists
    /\ notified = <<>>
    /\ data_store = <<>>
    /\ recent_data = <<>>
    /\ anomalies = <<>>
    /\ data = NoTick
    /\ proc_error = "none"
    /\ anomaly_table = <<>>
    /\ anomaly_stored = <<>>

DetectorIdle ==
    /\ detector = "none"
    /\ anomaly_callbacks = <<>>
    /\ notified = <<>>
    /\ data_store = <<>>
    /\ recent_data = <<>>
    /\ anomalies = <<>>
    /\ data = NoTick
    /\ proc_error = "none"
    /\ anomaly_table = <<>>
    /\ anomaly_stored = <<>>

(***************************************************************************)
(* The persistence store: store_market_data and store_anomaly              *)
(* (src/data/database.py) and HistoricalDataBackfiller.store_to_database   *)
(* (src/data/backfill_historical.py), on the table market_data.            *)
(*                                                                         *)
(* A time is <<second, microsecond>>.  A row keeps the columns the code    *)
(* reads back: timestamp, symbol and raw_data.  A datetime parameter is     *)
(* stored as its text with the microseconds, so two stored times are equal *)
(* exactly when second and microsecond are.                                *)
(* db_ok is whether SQLite carries out the statements of a call; when it   *)
(* does not, the exception is caught inside the call.                      *)
(***************************************************************************)
\* timestamp.strftime('%Y-%m-%d %H:%M:%S'): the microsecond is dropped
strftime(t) == <<t[1], 0>>

\* an exception that leaves store_market_data
store_raises_Uncaught(db_ok) == ~db_ok

\* store_market_data's "except Exception: log; return False": nothing an
\* INSERT raises leaves the function
store_raises(db_ok) == FALSE

\* store_market_data(asset_type, symbol, data): one INSERT inside
\* get_db_cursor (commit, or rollback and re-raise), the exception caught
store_market_data(table, row, db_ok) ==
    IF db_ok THEN [table |-> Append(table, row), ret |-> TRUE]
    ELSE [table |-> table, ret |-> FALSE]

\* a test that never finds the row
Exists_Never(table, timestamp_str, symbol) == FALSE

\* SELECT COUNT(*) FROM market_data WHERE timestamp = ? AND symbol = ?  > 0
Exists(table, timestamp_str, symbol) ==
    \E i \in 1..Len(table) : table[i].timestamp = timestamp_str /\ table[i].symbol = symbol

BarRow(t, symbol) ==
    [timestamp |-> strftime(t), symbol |-> symbol, raw_data |-> [kind |-> "bar", timestamp |-> t]]

\* the for loop of store_to_database over the rows of df; the result is the
\* table and stored_count
RECURSIVE UpsertRows(_, _, _, _)
UpsertRows(table, df, symbol, stored_count) ==
    IF df = <<>> THEN [table |-> table, stored_count |-> stored_count]
    ELSE IF ~Exists(table, strftime(Head(df)), symbol)
         THEN UpsertRows(Append(table, BarRow(Head(df), symbol)), Tail(df), symbol, stored_count + 1)
         ELSE UpsertRows(table, Tail(df), symbol, stored_count)

\* store_to_database(df, symbol): nothing is committed when a statement fails
store_to_database(table, df, symbol, db_ok) ==
    IF df = <<>> THEN [table |-> table, ret |-> 0, ok |-> TRUE]
    ELSE IF db_ok
         THEN LET done == UpsertRows(table, df, symbol, 0)
              IN  [table |-> done.table, ret |-> done.stored_count, ok |-> TRUE]
         ELSE [table |-> table, ret |-> 0, ok |-> FALSE]

StoreSymbols == {"BTC-USD", "ETH-USD"}
\* aggregate bars start on whole seconds
BarTimes == {<<1, 0>>, <<2, 0>>}
\* datetime.now() at the time of a live write
NowTimes == {<<1, 0>>, <<1, 5>>}

\* the DataFrames of the model: sorted by timestamp (df.sort_index)
DataFrames ==
    {df \in UNION {[1..k -> BarTimes] : k \in 0..MaxRows} :
        \A i \in 1..(Len(df) - 1) : df[i][1] <= df[i + 1][1]}

\* the aggregate of a symbol as the stream delivers it
StreamTick(symbol) == [kind |-> "stream", pair |-> symbol]

(***************************************************************************)
(* One connection: PolygonWebSocketClient (src/data/stream_data.py, the    *)
(* module stream_manager.py imports as src.data.stream_stocks) and         *)
(* CryptoWebSocketClient (src/data/stream_crypto.py).                      *)
(*                                                                         *)
(* client.ws is the transport (the WebSocketApp and its socket):           *)
(*   "none"        no WebSocketApp yet (self.ws = None)                    *)
(*   "connecting"  run_forever started, the socket not yet open            *)
(*   "open"        the socket is open: a live transport                    *)
(*   "closing"     ws.close() was called, on_close has not run yet         *)
(*   "closed"      on_close has run                                        *)
(* client.sent is the sequence of requests sent on the transport.          *)
(***************************************************************************)
ClientKinds == {"stocks", "crypto"}

NewClient(kind) ==
    [kind |-> kind, ws |-> "none", is_connected |-> FALSE,
     is_authenticated |-> FALSE, sent |-> <<>>]

NoClient == [kind |-> "none", ws |-> "none", is_connected |-> FALSE,
             is_authenticated |-> FALSE, sent |-> <<>>]

\* an open upstream connection
Live(c) == c.ws = "open"

\* ws.send(json.dumps(request)) on an open socket
Send(c, action) == [c EXCEPT !.sent = Append(@, action)]

\* connect(): the WebSocketApp is created and run_forever starts
client_connect(c) == [c EXCEPT !.ws = "connecting", !.sent = <<>>]

\* ws.close(), guarded by "if self.ws"
ws_close(c) == IF c.ws \in {"connecting", "open"} THEN [c EXCEPT !.ws = "closing"] ELSE c

\* disconnect(): the equity client also clears its flags
disconnect(c) ==
    IF c.kind = "stocks"
    THEN [ws_close(c) EXCEPT !.is_connected = FALSE, !.is_authenticated = FALSE]
    ELSE ws_close(c)

\* on_open: the crypto client sets is_connected and sends the auth request
on_open(c) ==
    IF c.kind = "crypto"
    THEN Send([c EXCEPT !.ws = "open", !.is_connected = TRUE], "auth")
    ELSE [c EXCEPT !.ws = "open"]

\* an on_close that connects again
on_close_Reconnects(c) ==
    [c EXCEPT !.ws = "connecting", !.is_connected = FALSE, !.is_authenticated = FALSE]

\* on_close
on_close(c) == [c EXCEPT !.ws = "closed", !.is_connected = FALSE, !.is_authenticated = FALSE]

\* CryptoWebSocketClient.subscribe_to_data
subscribe_to_data(c) == IF ~c.is_authenticated THEN c ELSE Send(c, "subscribe")

\* PolygonWebSocketClient.subscribe on an open socket
subscribe(c) == Send(c, "subscribe")

StatusValues == {"connected", "auth_success", "auth_failed"}

\* any status of the handshake taken for the acknowledgment
Acknowledges_AnyGreeting(status) == status \in {"connected", "auth_success"}

\* status == 'auth_success'
Acknowledges(status) == status = "auth_success"

\* _handle_status_message / handle_status_message
handle_status_message(c, status) ==
    IF c.kind = "stocks"
    THEN CASE status = "connected" -> Send([c EXCEPT !.is_connected = TRUE], "auth")
           [] Acknowledges(status) -> [c EXCEPT !.is_authenticated = TRUE]
           [] status = "auth_failed" -> disconnect(c)
           [] OTHER -> c
    ELSE CASE Acknowledges(status) -> subscribe_to_data([c EXCEPT !.is_authenticated = TRUE])
           [] OTHER -> c

\* The handlers of the model: one that returns and one that raises on every call.
HandlerKinds == {"ok", "raises"}
HandlerRaises(h) == h = "raises"

\* a try around the whole loop instead: the first raise ends the loop
AfterRaise_LeaveLoop(handlers, i) == Len(handlers) + 1

\* the handler loop after handler i raised: the except clause inside the loop
\* logs the error and the loop goes on with the next handler
AfterRaise(handlers, i) == i + 1

\* for handler in self.data_handlers: try: handler(data) except Exception: log
RECURSIVE CallHandlers(_, _, _, _)
CallHandlers(handlers, i, msg, log) ==
    IF i > Len(handlers) THEN log
    ELSE LET called == [log EXCEPT ![i] = Append(@, msg)]
         IN  IF HandlerRaises(handlers[i])
             THEN CallHandlers(handlers, AfterRaise(handlers, i), msg, called)
             ELSE CallHandlers(handlers, i + 1, msg, called)

\* add_data_handler
AddDataHandler(h) ==
    /\ client.kind # "none"
    /\ Len(data_handlers) < MaxHandlers
    /\ data_handlers' = Append(data_handlers, h)
    /\ calls' = Append(calls, <<>>)
    /\ UNCHANGED <<client, data_buffer, market_data, inbound, received, dispatched>>
    /\ UNCHANGED notConn

\* connect()
Connect ==
    /\ client.kind # "none"
    /\ client.ws = "none"
    /\ client' = client_connect(client)
    /\ received' = {}
    /\ UNCHANGED dispatched
    /\ UNCHANGED <<data_handlers, calls, data_buffer, market_data, inbound>>
    /\ UNCHANGED notConn

\* the socket opens: on_open
TransportOpen ==
    /\ client.ws = "connecting"
    /\ client' = on_open(client)
    /\ UNCHANGED <<received, dispatched>>
    /\ UNCHANGED <<data_handlers, calls, data_buffer, market_data, inbound>>
    /\ UNCHANGED notConn

\* the socket closes, fails to open, or finishes closing: on_close
TransportClose ==
    /\ client.ws \in {"connecting", "open", "closing"}
    /\ client' = on_close(client)
    /\ UNCHANGED <<received, dispatched>>
    /\ UNCHANGED <<data_handlers, calls, data_buffer, market_data, inbound>>
    /\ UNCHANGED notConn

\* on_message with a status item
StatusMessage(status) ==
    /\ client.ws = "open"
    /\ Len(client.sent) < MaxRequests
    /\ client' = handle_status_message(client, status)
    /\ received' = received \cup {status}
    /\ UNCHANGED dispatched
    /\ UNCHANGED <<data_handlers, calls, data_buffer, market_data, inbound>>
    /\ UNCHANGED notConn

\* the handlers the loop calls for one item, in the order it calls them
RECURSIVE HandlersCalled(_, _)
HandlersCalled(handlers, i) ==
    IF i > Len(handlers) THEN <<>>
    ELSE <<i>> \o HandlersCalled(handlers, IF HandlerRaises(handlers[i])
                                           THEN AfterRaise(handlers, i) ELSE i + 1)

\* one aggregate item, on st = [data_buffer, market_data, calls, dispatched]:
\* _handle_aggregate_message -> _dispatch_data (equity: buffer, then the
\* handlers); handle_crypto_data (crypto: store_market_data, then the
\* handlers, all inside one try whose except logs whatever escapes)
handle_item(st, item, db_ok, size) ==
    LET order == HandlersCalled(data_handlers, 1)
        made == [k \in 1..Len(order) |-> [handler |-> order[k], item |-> item, array |-> size]]
    IN  IF client.kind = "stocks"
        THEN [st EXCEPT !.data_buffer = Append(@, item),
                        !.calls = CallHandlers(data_handlers, 1, item, @),
                        !.dispatched = @ \o made]
        ELSE IF store_raises(db_ok)
             THEN [st EXCEPT !.market_data = store_market_data(@, item, db_ok).table]
             ELSE [st EXCEPT !.market_data = store_market_data(@, item, db_ok).table,
                             !.calls = CallHandlers(data_handlers, 1, item, @),
                             !.dispatched = @ \o made]

\* for item in data: the items one after the other
RECURSIVE ProcessItems(_, _, _, _)
ProcessItems(st, items, oks, size) ==
    IF items = <<>> THEN st
    ELSE ProcessItems(handle_item(st, Head(items), Head(oks), size), Tail(items), Tail(oks), size)

Reverse(seq) == [k \in 1..Len(seq) |-> seq[Len(seq) + 1 - k]]

\* a loop that takes the items of the array from the end
on_message_LastFirst(st, items, oks) ==
    ProcessItems(st, Reverse(items), Reverse(oks), Len(items))

\* on_message: json.loads, then every item of the array in turn
on_message(st, items, oks) ==
    ProcessItems(st, items, oks, Len(items))

\* on_message with an array of aggregates; oks says, item by item, whether
\* SQLite carries out the write
DataMessage(oks) ==
    /\ client.ws = "open"
    /\ inbound + Len(oks) <= MaxMessages
    /\ LET items == [k \in 1..Len(oks) |-> inbound + k]
           st == on_message([data_buffer |-> data_buffer, market_data |-> market_data,
                             calls |-> calls, dispatched |-> dispatched], items, oks)
       IN  /\ inbound' = inbound + Len(oks)
           /\ data_buffer' = st.data_buffer
           /\ market_data' = st.market_data
           /\ calls' = st.calls
           /\ dispatched' = st.dispatched
    /\ UNCHANGED <<client, data_handlers, received>>
    /\ UNCHANGED notConn

\* PolygonWebSocketClient.subscribe, called by the owner once connect() returned
Subscribe ==
    /\ client.kind = "stocks"
    /\ client.is_authenticated
    /\ client.ws = "open"
    /\ "subscribe" \notin {client.sent[i] : i \in 1..Len(client.sent)}
    /\ client' = subscribe(client)
    /\ UNCHANGED <<received, dispatched>>
    /\ UNCHANGED <<data_handlers, calls, data_buffer, market_data, inbound>>
    /\ UNCHANGED notConn

\* disconnect()
Disconnect ==
    /\ client.kind # "none"
    /\ client.ws # "closed"
    /\ client' = disconnect(client)
    /\ client' # client
    /\ UNCHANGED <<received, dispatched>>
    /\ UNCHANGED <<data_handlers, calls, data_buffer, market_data, inbound>>
    /\ UNCHANGED notConn

ConnectionInit ==
    /\ client \in {NewClient(k) : k \in ClientKinds}
    /\ data_handlers = <<>>
    /\ calls = <<>>
    /\ data_buffer = <<>>
    /\ market_data = <<>>
    /\ inbound = 0
    /\ received = {}
    /\ dispatched = <<>>

ConnectionIdle ==
    /\ client = NoClient
    /\ data_handlers = <<>>
    /\ calls = <<>>
    /\ data_buffer = <<>>
    /\ market_data = <<>>
    /\ inbound = 0
    /\ received = {}
    /\ dispatched = <<>>

(***************************************************************************)
(* The calls on the persistence store.                                     *)
(***************************************************************************)
\* store_market_data('crypto', symbol, crypto_data): the data has no
\* 'timestamp' key, the row gets datetime.now()
StoreMarketData(symbol, now, db_ok) ==
    /\ Len(db_log) < MaxStoreCalls
    /\ LET row == [timestamp |-> now, symbol |-> symbol, raw_data |-> StreamTick(symbol)]
           done == store_market_data(market_data, row, db_ok)
       IN  /\ market_data' = done.table
           /\ db_log' = Append(db_log, [op |-> "store_market_data", symbol |-> symbol,
                                        now |-> now, ok |-> done.ret])
    /\ UNCHANGED <<client, data_handlers, calls, data_buffer, inbound, received, dispatched>>
    /\ UNCHANGED notStore

\* store_to_database(df, symbol)
StoreToDatabase(df, symbol, db_ok) ==
    /\ Len(db_log) < MaxStoreCalls
    /\ LET done == store_to_database(market_data, df, symbol, db_ok)
       IN  /\ market_data' = done.table
           /\ db_log' = Append(db_log, [op |-> "store_to_database", symbol |-> symbol,
                                        df |-> df, ok |-> done.ok, ret |-> done.ret])
    /\ UNCHANGED <<client, data_handlers, calls, data_buffer, inbound, received, dispatched>>
    /\ UNCHANGED notStore

\* init_database: the tables exist and are empty
StoreInit ==
    /\ db_log = <<>>
    /\ market_data = <<>>
    /\ client = NoClient
    /\ data_handlers = <<>>
    /\ calls = <<>>
    /\ data_buffer = <<>>
    /\ inbound = 0
    /\ received = {}
    /\ dispatched = <<>>

StoreIdle == db_log = <<>>

(***************************************************************************)
(* One worker's connection with what its owner gave it: the symbols, the   *)
(* subscription it asks for from the configuration of its process, and     *)
(* the inbound messages as the upstream sends them, item by item.          *)
(*                                                                         *)
(* An item of an inbound array is [shape, symbol]:                         *)
(*   "aggregate"   an aggregate of the client's class ('A' / 'XA')         *)
(*   "bad_time"    an aggregate whose start time ('t' / 's') is a string   *)
(*   "not_object"  an element that is not a JSON object                    *)
(* A write to market_data is carried out in these runs.                    *)
(***************************************************************************)
\* the client with the fields the subscription and the data path read:
\* CryptoWebSocketClient.symbols, PolygonWebSocketClient.subscribed_symbols
WorkerClient(kind, symbols) ==
    [kind |-> kind, ws |-> "open", is_connected |-> TRUE,
     is_authenticated |-> kind = "stocks", sent |-> <<"auth">>,
     symbols |-> symbols, subscribed_symbols |-> {}]

\* a subscribe that sends whatever it was asked for
subscribe_request_Unchecked(c, symbols, data_types) ==
    [subscribe(c) EXCEPT !.subscribed_symbols = @ \cup Range(symbols)]

\* PolygonWebSocketClient.subscribe(symbols, data_types): the channels are
\* built first; a ValueError of the builder leaves the method before
\* ws.send and before subscribed_symbols.update
subscribe_request(c, symbols, data_types) ==
    IF get_subscription_channels(c.kind, symbols, TRUE, data_types, <<>>).ok
    THEN [subscribe(c) EXCEPT !.subscribed_symbols = @ \cup Range(symbols)]
    ELSE c

\* CryptoWebSocketClient.subscribe_to_data with its try: the channels of
\* self.symbols with data_types left out; an exception is logged
subscribe_to_data_channels(c) ==
    IF get_subscription_channels(c.kind, c.symbols, FALSE, <<>>, <<>>).ok
    THEN subscribe_to_data(c)
    ELSE c

ItemShapes == {"aggregate", "bad_time", "not_object"}

\* the exception an item raises leaves the for loop of on_message:
\* item.get on something that is no dict (both clients); the comparison
\* message.get('t', 0) > 0 in _handle_aggregate_message (equity), which has
\* no try of its own
ItemEscapes(kind, shape) ==
    \/ shape = "not_object"
    \/ shape = "bad_time" /\ kind = "stocks"

\* the exception is caught inside handle_crypto_data, before
\* store_market_data: crypto_data.get('s', 0) / 1000
ItemDropped(kind, shape) == shape = "bad_time" /\ kind = "crypto"

\* for item in data, inside on_message's try: an exception that escapes an
\* item ends the loop
RECURSIVE DecodeItems(_, _, _)
DecodeItems(st, items, size) ==
    IF items = <<>> THEN st
    ELSE IF ItemEscapes(client.kind, Head(items).shape) THEN st
    ELSE IF ItemDropped(client.kind, Head(items).shape) THEN DecodeItems(st, Tail(items), size)
    ELSE DecodeItems(handle_item(st, Head(items), TRUE, size), Tail(items), size)

\* an inbound text that json.loads rejects: JSONDecodeError is logged
Undecodable == [json |-> FALSE, items |-> <<>>]

\* on_message(ws, message)
decode_message(st, msg) ==
    IF ~msg.json THEN st ELSE DecodeItems(st, msg.items, Len(msg.items))

\* the symbols of the model's streams and of the items the upstream sends
WorkerSymbols(kind) ==
    IF kind = "stocks" THEN {<<"AAPL">>, <<"AAPL", "MSFT">>}
    ELSE {<<"BTC-USD">>, <<"X:BTCUSD">>, <<"BTC-USD", "ETH-USD">>}

ItemSymbols(kind) == IF kind = "stocks" THEN {"AAPL", "MSFT"} ELSE {"BTC-USD", "ETH-USD"}

Items(kind) == {[shape |-> sh, symbol |-> sym] : sh \in ItemShapes, sym \in ItemSymbols(kind)}

Messages(kind) ==
    {Undecodable} \cup
    {[json |-> TRUE, items |-> items] : items \in UNION {[1..n -> Items(kind)] : n \in 1..MaxItems}}

\* the data types the owner of an equity client asks for
WorkerCodes == {<<"A">>, <<"A", "T">>, <<"XL2">>}

notWorker == <<chanVars, detVars, storeVars, mgrVars, orchVars, clockVars>>

\* the owner calls client.subscribe(symbols, data_types) after connect()
WorkerSubscribe(symbols, data_types) ==
    /\ client.kind = "stocks"
    /\ client.is_authenticated
    /\ Live(client)
    /\ Len(client.sent) < MaxRequests
    /\ client' = subscribe_request(client, symbols, data_types)
    /\ result' = [op |-> "subscribe", symbols |-> symbols, data_types |-> data_types,
                  ret |-> get_subscription_channels(client.kind, symbols, TRUE, data_types, <<>>).ok]
    /\ UNCHANGED <<env_tier, env_url, asset_subscriptions>>
    /\ UNCHANGED <<data_handlers, calls, data_buffer, market_data, inbound, received, dispatched>>
    /\ UNCHANGED notWorker

\* on_message with the status item auth_success on the crypto client:
\* is_authenticated, then subscribe_to_data
WorkerAcknowledged ==
    /\ client.kind = "crypto"
    /\ Live(client)
    /\ Len(client.sent) < MaxRequests
    /\ client' = subscribe_to_data_channels([client EXCEPT !.is_authenticated = TRUE])
    /\ received' = received \cup {"auth_success"}
    /\ result' = [op |-> "subscribe_to_data", symbols |-> client.symbols, data_types |-> <<>>,
                  ret |-> get_subscription_channels(client.kind, client.symbols, FALSE, <<>>, <<>>).ok]
    /\ UNCHANGED <<env_tier, env_url, asset_subscriptions>>
    /\ UNCHANGED <<data_handlers, calls, data_buffer, market_data, inbound, dispatched>>
    /\ UNCHANGED notWorker

\* on_message with a text the upstream sent after a subscribe request
InboundMessage(msg) ==
    /\ Live(client)
    /\ "subscribe" \in Range(client.sent)
    /\ inbound + Len(msg.items) <= MaxInbound
    /\ LET st == decode_message([data_buffer |-> data_buffer, market_data |-> market_data,
                                 calls |-> calls, dispatched |-> dispatched], msg)
       IN  /\ inbound' = inbound + Len(msg.items)
           /\ data_buffer' = st.data_buffer
           /\ market_data' = st.market_data
           /\ calls' = st.calls
           /\ dispatched' = st.dispatched
    /\ UNCHANGED <<client, data_handlers, received>>
    /\ UNCHANGED cfgVars
    /\ UNCHANGED notWorker

\* the tiers and endpoints a worker's process is configured with
WorkerTiers == {"basic", "starter", "developer", "advanced"}

\* a worker whose connection is open: the equity client's connect() has
\* returned, the crypto client has sent its auth request; its handlers are
\* registered
WorkerInit ==
    /\ \E kind \in ClientKinds, tier \in WorkerTiers, url \in {Unset, "wss://override.example"} :
          /\ env_tier = [a \in AssetType |-> IF a = kind THEN tier ELSE Unset]
          /\ env_url = [a \in AssetType |-> IF a = kind THEN url ELSE Unset]
          /\ asset_subscriptions = [a \in AssetType |-> LoadTier(env_tier[a])]
          /\ get_websocket_url(kind).ok
          /\ client \in {WorkerClient(kind, symbols) : symbols \in WorkerSymbols(kind)}
    /\ result = NoResult
    /\ data_handlers \in {<<"ok">>, <<"raises", "ok">>}
    /\ calls = [i \in 1..Len(data_handlers) |-> <<>>]
    /\ data_buffer = <<>>
    /\ market_data = <<>>
    /\ inbound = 0
    /\ received = {}
    /\ dispatched = <<>>

(***************************************************************************)
(* The thread supervisor: StreamManager and its AssetStreams               *)
(* (src/data/stream_manager.py).  The main thread runs start_all ->        *)
(* _start_streams; every AssetStream.start() spawns a daemon thread that   *)
(* creates its own client.  threads[i].pc is the worker's position:        *)
(*   "started"     Thread.start() returned, the body has not run yet       *)
(*   "running"     the client exists and stream.is_running is True         *)
(*   "connecting"  inside client.connect()                                 *)
(*   "done"        the finally clause ran; the thread is dead              *)
(* streams[a].thread and streams[a].client index threads; 0 is None.       *)
(***************************************************************************)
AssetOrder == <<"stocks", "crypto">>

NewStream == [is_running |-> FALSE, thread |-> 0, client |-> 0]

\* AssetStream.is_active, on a stream st of the state s = [streams, threads]
is_active(s, a) ==
    LET st == s.streams[a]
    IN  st.is_running /\ st.thread # 0 /\ s.threads[st.thread].pc # "done"

\* StockStream.start / CryptoStream.start: nothing if is_running, else a new
\* thread on the worker body
stream_start(s, a) ==
    IF s.streams[a].is_running THEN s
    ELSE [streams |-> [s.streams EXCEPT ![a].thread = Len(s.threads) + 1],
          threads |-> Append(s.threads, [asset |-> a, pc |-> "started", client |-> NoClient])]

\* AssetStream.stop: is_running = False; if self.client: self.client.disconnect()
stream_stop(s, a) ==
    LET c == s.streams[a].client
    IN  [streams |-> [s.streams EXCEPT ![a].is_running = FALSE],
         threads |-> IF c = 0 THEN s.threads
                     ELSE [s.threads EXCEPT ![c].client = disconnect(@)]]

\* The environments of the supervisor runs: POLYGON_TIER_* of stocks and
\* crypto unset or "starter", and at most one POLYGON_WS_URL_* override.
SupervisorTiers ==
    {[a \in AssetType |-> IF a \in S THEN "starter" ELSE Unset] : S \in SUBSET ClientKinds}

SupervisorOverrides ==
    {[a \in AssetType |-> IF a \in S THEN "wss://override.example" ELSE Unset] :
        S \in {{}, {"stocks"}, {"crypto"}}}

\* get_websocket_config() as the supervisor's process finds it
SupervisorConfigInit ==
    /\ env_tier \in SupervisorTiers
    /\ env_url \in SupervisorOverrides
    /\ asset_subscriptions = [a \in AssetType |-> LoadTier(env_tier[a])]
    /\ result = NoResult

\* StreamManager._check_available_assets: the asset types for which
\* get_websocket_url raises no ValueError
available_assets == {a \in AssetType : get_websocket_url(a).ok}

\* StreamManager.add_stream on the dict ss
add_stream(ss, a) ==
    IF a \notin available_assets THEN ss
    ELSE IF a \in ClientKinds
         THEN [x \in DOMAIN ss \cup {a} |-> IF x = a THEN NewStream ELSE ss[x]]
         ELSE ss

\* for asset_type in asset_types: self.add_stream(asset_type, ...)
RECURSIVE AddEach(_, _)
AddEach(ss, todo) ==
    IF todo = <<>> THEN ss ELSE AddEach(add_stream(ss, Head(todo)), Tail(todo))

\* start_all: every available asset that is implemented
AllImplemented == SelectSeq(AssetOrder, LAMBDA a : a \in available_assets)

\* start_selected: only 'stocks' and 'crypto' reach add_stream
Selected(types) == SelectSeq(types, LAMBDA a : a \in ClientKinds)

\* main(): start_selected(args.assets, ...) if args.assets else start_all()
Added(types) ==
    IF types # <<>> THEN AddEach(<<>>, Selected(types)) ELSE AddEach(<<>>, AllImplemented)

\* the values of --assets in the model; <<>> is the option left out
Arguments == {<<>>, <<"stocks">>, <<"crypto">>, <<"stocks", "crypto">>, <<"forex", "crypto">>}

\* the assets the manager has a stream for, in the order they were added
Managed(ss) == SelectSeq(AssetOrder, LAMBDA a : a \in DOMAIN ss)

\* for stream in self.streams.values(): stream.start()
RECURSIVE StartEach(_, _)
StartEach(s, todo) ==
    IF todo = <<>> THEN s ELSE StartEach(stream_start(s, Head(todo)), Tail(todo))

\* if not stream.is_active() and self.is_running
NeedsRestart(s, a) == ~is_active(s, a)

\* for asset_type, stream in self.streams.items(): restart the inactive ones
RECURSIVE CheckEach(_, _)
CheckEach(s, todo) ==
    IF todo = <<>> THEN s
    ELSE CheckEach(IF NeedsRestart(s, Head(todo)) THEN stream_start(s, Head(todo)) ELSE s,
                   Tail(todo))

\* for stream in self.streams.values(): stream.stop()
RECURSIVE StopEach(_, _)
StopEach(s, todo) ==
    IF todo = <<>> THEN s ELSE StopEach(stream_stop(s, Head(todo)), Tail(todo))

Now == [streams |-> streams, threads |-> threads]

\* start_all / start_selected: the add_stream calls, then _start_streams up
\* to the health loop
StartStreams ==
    /\ mgr_pc = "created"
    /\ mgr_running' = TRUE
    /\ LET added == [streams |-> Added(asset_types), threads |-> threads]
           s == StartEach(added, Managed(added.streams))
       IN  streams' = s.streams /\ threads' = s.threads
    /\ mgr_pc' = "monitor"
    /\ UNCHANGED <<asset_types, market_open>>
    /\ UNCHANGED notMgr

\* one pass of the health loop's for statement
HealthCheck ==
    /\ mgr_pc = "monitor"
    /\ mgr_running
    /\ LET s == CheckEach(Now, Managed(streams))
       IN  /\ Len(s.threads) <= MaxThreads
           /\ streams' = s.streams /\ threads' = s.threads
    /\ mgr_pc' = "sleep"
    /\ UNCHANGED mgr_running
    /\ UNCHANGED <<asset_types, market_open>>
    /\ UNCHANGED notMgr

\* time.sleep(5) returns
Wake ==
    /\ mgr_pc = "sleep"
    /\ mgr_pc' = "monitor"
    /\ UNCHANGED <<mgr_running, streams, threads>>
    /\ UNCHANGED <<asset_types, market_open>>
    /\ UNCHANGED notMgr

\* SIGINT / SIGTERM: signal_handler calls manager.stop_all(), which stops
\* every stream and then joins the threads for up to 5 s each
Signal ==
    /\ mgr_pc \in {"monitor", "sleep"}
    /\ mgr_running' = FALSE
    /\ LET s == StopEach(Now, Managed(streams))
       IN  streams' = s.streams /\ threads' = s.threads
    /\ mgr_pc' = "joining"
    /\ UNCHANGED <<asset_types, market_open>>
    /\ UNCHANGED notMgr

\* the joins are over: sys.exit(0) unwinds through _start_streams' finally,
\* which calls stop_all() again, and the interpreter exits; the daemon
\* threads and their sockets go with it
Exit ==
    /\ mgr_pc = "joining"
    /\ LET s == StopEach(Now, Managed(streams))
       IN  /\ streams' = s.streams
           /\ threads' = [i \in 1..Len(threads) |->
                             [s.threads[i] EXCEPT !.pc = "done",
                                  !.client = IF @.ws = "none" THEN @ ELSE on_close(@)]]
    /\ mgr_pc' = "exited"
    /\ UNCHANGED mgr_running
    /\ UNCHANGED <<asset_types, market_open>>
    /\ UNCHANGED notMgr

Alive == mgr_pc # "exited"

\* the worker body up to is_running = True: the client is created, the
\* detector's process_data is registered
ThreadBegin(i) ==
    /\ Alive
    /\ threads[i].pc = "started"
    /\ threads' = [threads EXCEPT ![i].client = NewClient(threads[i].asset), ![i].pc = "running"]
    /\ streams' = [streams EXCEPT ![threads[i].asset].client = i,
                                  ![threads[i].asset].is_running = TRUE]
    /\ UNCHANGED <<mgr_running, mgr_pc>>
    /\ UNCHANGED <<asset_types, market_open>>
    /\ UNCHANGED notMgr

\* self.client.connect() is entered
ThreadConnect(i) ==
    /\ Alive
    /\ threads[i].pc = "running"
    /\ threads' = [threads EXCEPT ![i].client = client_connect(@), ![i].pc = "connecting"]
    /\ UNCHANGED <<mgr_running, mgr_pc, streams>>
    /\ UNCHANGED <<asset_types, market_open>>
    /\ UNCHANGED notMgr

\* equity: connect() returns once is_authenticated; subscribe(symbols, ['A'])
\* follows and the body ends: finally is_running = False
ThreadSubscribed(i) ==
    /\ Alive
    /\ threads[i].asset = "stocks"
    /\ threads[i].pc = "connecting"
    /\ threads[i].client.is_authenticated
    /\ threads' = [threads EXCEPT ![i].client = IF Live(@) THEN subscribe(@) ELSE @,
                                  ![i].pc = "done"]
    /\ streams' = [streams EXCEPT ![threads[i].asset].is_running = FALSE]
    /\ UNCHANGED <<mgr_running, mgr_pc>>
    /\ UNCHANGED <<asset_types, market_open>>
    /\ UNCHANGED notMgr

\* equity: the 10 s wait for is_authenticated runs out; connect() raises
\* ConnectionError, the body logs it: finally is_running = False
ThreadAuthTimeout(i) ==
    /\ Alive
    /\ threads[i].asset = "stocks"
    /\ threads[i].pc = "connecting"
    /\ ~threads[i].client.is_authenticated
    /\ threads' = [threads EXCEPT ![i].pc = "done"]
    /\ streams' = [streams EXCEPT ![threads[i].asset].is_running = FALSE]
    /\ UNCHANGED <<mgr_running, mgr_pc>>
    /\ UNCHANGED <<asset_types, market_open>>
    /\ UNCHANGED notMgr

\* crypto: connect() blocks in run_forever until the transport is closed;
\* then the body ends: finally is_running = False
ThreadRunForeverReturns(i) ==
    /\ Alive
    /\ threads[i].asset = "crypto"
    /\ threads[i].pc = "connecting"
    /\ threads[i].client.ws = "closed"
    /\ threads' = [threads EXCEPT ![i].pc = "done"]
    /\ streams' = [streams EXCEPT ![threads[i].asset].is_running = FALSE]
    /\ UNCHANGED <<mgr_running, mgr_pc>>
    /\ UNCHANGED <<asset_types, market_open>>
    /\ UNCHANGED notMgr

\* the socket of thread i's client opens: on_open
WsOpen(i) ==
    /\ Alive
    /\ threads[i].client.ws = "connecting"
    /\ threads' = [threads EXCEPT ![i].client = on_open(@)]
    /\ UNCHANGED <<mgr_running, mgr_pc, streams>>
    /\ UNCHANGED <<asset_types, market_open>>
    /\ UNCHANGED notMgr

\* the socket of thread i's client closes or fails: on_close
WsClose(i) ==
    /\ Alive
    /\ threads[i].client.ws \in {"connecting", "open", "closing"}
    /\ threads' = [threads EXCEPT ![i].client = on_close(@)]
    /\ UNCHANGED <<mgr_running, mgr_pc, streams>>
    /\ UNCHANGED <<asset_types, market_open>>
    /\ UNCHANGED notMgr

\* what the server sends next on a connection: "connected" on an equity
\* connection that has sent nothing, an answer to a pending auth request
ServerSends(c) ==
    IF c.kind = "stocks" /\ c.sent = <<>> THEN {"connected"}
    ELSE IF c.sent # <<>> /\ c.sent[Len(c.sent)] = "auth" /\ ~c.is_authenticated
         THEN {"auth_success", "auth_failed"}
         ELSE {}

\* on_message with a status item on thread i's client
WsStatus(i, status) ==
    /\ Alive
    /\ threads[i].client.ws = "open"
    /\ status \in ServerSends(threads[i].client)
    /\ threads' = [threads EXCEPT ![i].client = handle_status_message(@, status)]
    /\ UNCHANGED <<mgr_running, mgr_pc, streams>>
    /\ UNCHANGED <<asset_types, market_open>>
    /\ UNCHANGED notMgr

\* StreamManager() in main(), with the parsed arguments
ManagerInit ==
    /\ mgr_running = FALSE
    /\ mgr_pc = "created"
    /\ streams = <<>>
    /\ threads = <<>>
    /\ asset_types \in Arguments

ManagerIdle ==
    /\ mgr_running = FALSE
    /\ mgr_pc = "none"
    /\ streams = <<>>
    /\ threads = <<>>
    /\ asset_types = <<>>

(***************************************************************************)
(* The process supervisor: StreamOrchestrator                              *)
(* (src/data/stream_orchestrator.py).  Each child runs a stream script:    *)
(* main() of src/data/stream_crypto.py for crypto and main() of the        *)
(* equity client module (src/data/stream_data.py) for stocks.              *)
(* procs[i].pc is the child's position:                                    *)
(*   "spawned"     Popen returned; main() has not reached connect()        *)
(*   "connecting"  inside client.connect()                                 *)
(*   "serving"     equity: subscribed, in the while True / sleep(60) loop  *)
(*   "exited"      the process is gone (poll() is not None)                *)
(* The children read the same environment as the orchestrator.             *)
(* The relay of one line of each live child's output per pass              *)
(* (proc.stdout.readline()) changes no state of the model and is left out. *)
(***************************************************************************)
\* STREAM_CONFIGS[asset]['market_hours']
market_hours(a) == a = "stocks"

\* config.get('market_hours') and not self.is_market_open(schedule)
MarketClosedFor(a) == market_hours(a) /\ ~market_open

\* proc.poll() is not None
Exited(ps, p) == ps[p].pc = "exited"

\* start_stream on the state s = [processes, procs]
start_stream(s, a) ==
    IF MarketClosedFor(a) THEN s
    ELSE [processes |-> [s.processes EXCEPT ![a] = Len(s.procs) + 1],
          procs |-> Append(s.procs, [asset |-> a, pc |-> "spawned", client |-> NoClient])]

\* for asset in self.assets: self.start_stream(asset)
RECURSIVE SpawnEach(_, _)
SpawnEach(s, todo) ==
    IF todo = <<>> THEN s ELSE SpawnEach(start_stream(s, Head(todo)), Tail(todo))

\* if proc is None or proc.poll() is not None
NeedsStart(s, a) == s.processes[a] = 0 \/ Exited(s.procs, s.processes[a])

\* the for statement of monitor_streams
RECURSIVE MonitorEach(_, _)
MonitorEach(s, todo) ==
    IF todo = <<>> THEN s
    ELSE MonitorEach(IF NeedsStart(s, Head(todo)) THEN start_stream(s, Head(todo)) ELSE s,
                     Tail(todo))

\* a process that ends: its sockets are closed with it
Terminated(p) ==
    [p EXCEPT !.pc = "exited", !.client = IF @.ws \in {"none", "closed"} THEN @ ELSE on_close(@)]

OrchNow == [processes |-> processes, procs |-> procs]

\* start(): running = True and the initial start_stream of every asset
OrchStart ==
    /\ orch_pc = "created"
    /\ orch_running' = TRUE
    /\ LET s == SpawnEach(OrchNow, Managed(processes))
       IN  processes' = s.processes /\ procs' = s.procs
    /\ orch_pc' = "monitor"
    /\ UNCHANGED market_open
    /\ UNCHANGED notOrch

\* one pass of monitor_streams' while body
MonitorPass ==
    /\ orch_pc = "monitor"
    /\ orch_running
    /\ LET s == MonitorEach(OrchNow, Managed(processes))
       IN  /\ Len(s.procs) <= MaxProcs
           /\ processes' = s.processes /\ procs' = s.procs
    /\ orch_pc' = "sleep"
    /\ UNCHANGED <<orch_running, market_open>>
    /\ UNCHANGED notOrch

\* time.sleep(1) returns
OrchWake ==
    /\ orch_pc = "sleep"
    /\ orch_pc' = "monitor"
    /\ UNCHANGED <<orch_running, processes, procs, market_open>>
    /\ UNCHANGED notOrch

\* the wall clock enters or leaves the 09:30-16:00 window
ClockTick ==
    /\ orch_pc # "none" \/ mgr_pc \notin {"none", "exited"}
    /\ market_open' = ~market_open
    /\ UNCHANGED <<cfgVars, chanVars, detVars, connVars, storeVars, mgrVars, orchVars>>

ClockInit == market_open \in BOOLEAN

ClockIdle == market_open = FALSE

\* SIGINT / SIGTERM: stop() terminates every live child in self.processes,
\* waits up to 5 s and kills it; sys.exit(0) then leaves through start()'s
\* finally, whose stop() finds nothing left
OrchStop ==
    /\ orch_pc \in {"monitor", "sleep"}
    /\ orch_running' = FALSE
    /\ procs' = [i \in 1..Len(procs) |->
                    IF \E a \in DOMAIN processes : processes[a] = i
                    THEN Terminated(procs[i]) ELSE procs[i]]
    /\ orch_pc' = "exited"
    /\ UNCHANGED <<processes, market_open>>
    /\ UNCHANGED notOrch

\* main() of a stream script: the client's constructor asks for the
\* endpoint, get_websocket_url raises ValueError outside any try and the
\* script ends with a traceback
ProcBlocked(i) ==
    /\ procs[i].pc = "spawned"
    /\ ~get_websocket_url(procs[i].asset).ok
    /\ procs' = [procs EXCEPT ![i].pc = "exited"]
    /\ UNCHANGED <<orch_running, orch_pc, processes, market_open>>
    /\ UNCHANGED notOrch

\* main() of a stream script up to client.connect()
ProcConnect(i) ==
    /\ procs[i].pc = "spawned"
    /\ get_websocket_url(procs[i].asset).ok
    /\ procs' = [procs EXCEPT ![i].client = client_connect(NewClient(procs[i].asset)),
                              ![i].pc = "connecting"]
    /\ UNCHANGED <<orch_running, orch_pc, processes, market_open>>
    /\ UNCHANGED notOrch

\* equity script: connect() returned, subscribe(...) follows, then the
\* script stays in "while True: time.sleep(60); save_buffer_to_csv()"
ProcSubscribed(i) ==
    /\ procs[i].asset = "stocks"
    /\ procs[i].pc = "connecting"
    /\ procs[i].client.is_authenticated
    /\ Live(procs[i].client)
    /\ procs' = [procs EXCEPT ![i].client = subscribe(@), ![i].pc = "serving"]
    /\ UNCHANGED <<orch_running, orch_pc, processes, market_open>>
    /\ UNCHANGED notOrch

\* equity script: connect() raises ConnectionError after the 10 s wait;
\* finally client.disconnect() and the script ends
ProcAuthTimeout(i) ==
    /\ procs[i].asset = "stocks"
    /\ procs[i].pc = "connecting"
    /\ ~procs[i].client.is_authenticated
    /\ procs' = [procs EXCEPT ![i] = Terminated([@ EXCEPT !.client = disconnect(@)])]
    /\ UNCHANGED <<orch_running, orch_pc, processes, market_open>>
    /\ UNCHANGED notOrch

\* crypto script: run_forever returns once the transport is closed;
\* finally client.disconnect() and the script ends
ProcRunForeverReturns(i) ==
    /\ procs[i].asset = "crypto"
    /\ procs[i].pc = "connecting"
    /\ procs[i].client.ws = "closed"
    /\ procs' = [procs EXCEPT ![i] = Terminated([@ EXCEPT !.client = disconnect(@)])]
    /\ UNCHANGED <<orch_running, orch_pc, processes, market_open>>
    /\ UNCHANGED notOrch

\* the socket of child i's client opens: on_open
ProcWsOpen(i) ==
    /\ procs[i].pc # "exited"
    /\ procs[i].client.ws = "connecting"
    /\ procs' = [procs EXCEPT ![i].client = on_open(@)]
    /\ UNCHANGED <<orch_running, orch_pc, processes, market_open>>
    /\ UNCHANGED notOrch

\* the socket of child i's client closes or fails: on_close
ProcWsClose(i) ==
    /\ procs[i].pc # "exited"
    /\ procs[i].client.ws \in {"connecting", "open", "closing"}
    /\ procs' = [procs EXCEPT ![i].client = on_close(@)]
    /\ UNCHANGED <<orch_running, orch_pc, processes, market_open>>
    /\ UNCHANGED notOrch

\* on_message with a status item on child i's client
ProcWsStatus(i, status) ==
    /\ procs[i].pc # "exited"
    /\ procs[i].client.ws = "open"
    /\ status \in ServerSends(procs[i].client)
    /\ procs' = [procs EXCEPT ![i].client = handle_status_message(@, status)]
    /\ UNCHANGED <<orch_running, orch_pc, processes, market_open>>
    /\ UNCHANGED notOrch

\* StreamOrchestrator(assets)
OrchestratorInit ==
    /\ orch_running = FALSE
    /\ orch_pc = "created"
    /\ processes \in {[a \in S |-> 0] : S \in (SUBSET ClientKinds) \ {{}}}
    /\ procs = <<>>

OrchestratorIdle ==
    /\ orch_running = FALSE
    /\ orch_pc = "none"
    /\ processes = <<>>
    /\ procs = <<>>

(***************************************************************************)
(* Specifications.                                                         *)
(***************************************************************************)
ConfigNext ==
    \/ \E a \in AssetType : GetWebsocketUrl(a)
    \/ \E a \in AssetType : HasWebsocketAccess(a)
    \/ \E a \in AssetType, include_restricted \in BOOLEAN :
          GetAvailableDataTypes(a, include_restricted)

InitConfig == ConfigInit /\ ChannelsIdle /\ DetectorIdle /\ ConnectionIdle /\ ManagerIdle /\ OrchestratorIdle /\ StoreIdle /\ ClockIdle

SpecConfig == InitConfig /\ [][ConfigNext]_vars

ChannelsNext == GetSubscriptionChannels

InitChannels ==
    ChannelsInit /\ DetectorIdle /\ ConnectionIdle /\ StoreIdle /\ ManagerIdle /\ OrchestratorIdle /\ ClockIdle

SpecChannels == InitChannels /\ [][ChannelsNext]_vars

DetectorNext ==
    \/ \E t \in EquityTicks : ProcessAggregate(t)
    \/ \E t \in CryptoTicks, db_ok \in BOOLEAN : CryptoProcessData(t, db_ok)

InitDetector == DetectorInit /\ ConfigIdle /\ ConnectionIdle /\ ManagerIdle /\ OrchestratorIdle /\ ChannelsIdle /\ StoreIdle /\ ClockIdle

SpecDetector == InitDetector /\ [][DetectorNext]_vars

WorkerNext ==
    \/ \E symbols \in WorkerSymbols("stocks"), data_types \in WorkerCodes :
          WorkerSubscribe(symbols, data_types)
    \/ WorkerAcknowledged
    \/ \E msg \in Messages(client.kind) : InboundMessage(msg)

InitWorker ==
    WorkerInit /\ ChannelsIdle /\ DetectorIdle /\ StoreIdle /\ ManagerIdle /\ OrchestratorIdle /\ ClockIdle

SpecWorker == InitWorker /\ [][WorkerNext]_vars

WindowNext ==
    \/ \E t \in EquityRunTicks(data.timestamp) : ProcessAggregateRun(t)
    \/ \E t \in CryptoRunTicks(data.timestamp), db_ok \in BOOLEAN : CryptoProcessDataRun(t, db_ok)

InitWindow == DetectorInit /\ ConfigIdle /\ ConnectionIdle /\ ManagerIdle /\ OrchestratorIdle /\ ChannelsIdle /\ StoreIdle /\ ClockIdle

SpecWindow == InitWindow /\ [][WindowNext]_vars

ConnectionNext ==
    \/ \E h \in HandlerKinds : AddDataHandler(h)
    \/ Connect
    \/ TransportOpen
    \/ TransportClose
    \/ \E status \in StatusValues : StatusMessage(status)
    \/ \E oks \in UNION {[1..n -> BOOLEAN] : n \in 1..MaxItems} : DataMessage(oks)
    \/ Subscribe
    \/ Disconnect

InitConnection == ConnectionInit /\ ConfigIdle /\ DetectorIdle /\ ManagerIdle /\ OrchestratorIdle /\ ChannelsIdle /\ StoreIdle /\ ClockIdle

SpecConnection == InitConnection /\ [][ConnectionNext]_vars

StoreNext ==
    \/ \E symbol \in StoreSymbols, now \in NowTimes, db_ok \in BOOLEAN :
          StoreMarketData(symbol, now, db_ok)
    \/ \E df \in DataFrames, symbol \in StoreSymbols, db_ok \in BOOLEAN :
          StoreToDatabase(df, symbol, db_ok)

InitStore ==
    StoreInit /\ ConfigIdle /\ ChannelsIdle /\ DetectorIdle /\ ManagerIdle /\ OrchestratorIdle /\ ClockIdle

SpecStore == InitStore /\ [][StoreNext]_vars

ManagerNext ==
    \/ StartStreams
    \/ HealthCheck
    \/ Wake
    \/ Signal
    \/ Exit
    \/ \E i \in 1..Len(threads) : ThreadBegin(i)
    \/ \E i \in 1..Len(threads) : ThreadConnect(i)
    \/ \E i \in 1..Len(threads) : ThreadSubscribed(i)
    \/ \E i \in 1..Len(threads) : ThreadAuthTimeout(i)
    \/ \E i \in 1..Len(threads) : ThreadRunForeverReturns(i)
    \/ \E i \in 1..Len(threads) : WsOpen(i)
    \/ \E i \in 1..Len(threads) : WsClose(i)
    \/ \E i \in 1..Len(threads), status \in StatusValues : WsStatus(i, status)
    \/ ClockTick

InitManager ==
    ManagerInit /\ SupervisorConfigInit /\ ClockInit /\ DetectorIdle /\ ConnectionIdle /\ OrchestratorIdle /\ ChannelsIdle /\ StoreIdle

SpecManager == InitManager /\ [][ManagerNext]_vars

OrchestratorNext ==
    \/ OrchStart
    \/ MonitorPass
    \/ OrchWake
    \/ ClockTick
    \/ OrchStop
    \/ \E i \in 1..Len(procs) : ProcBlocked(i)
    \/ \E i \in 1..Len(procs) : ProcConnect(i)
    \/ \E i \in 1..Len(procs) : ProcSubscribed(i)
    \/ \E i \in 1..Len(procs) : ProcAuthTimeout(i)
    \/ \E i \in 1..Len(procs) : ProcRunForeverReturns(i)
    \/ \E i \in 1..Len(procs) : ProcWsOpen(i)
    \/ \E i \in 1..Len(procs) : ProcWsClose(i)
    \/ \E i \in 1..Len(procs), status \in StatusValues : ProcWsStatus(i, status)

InitOrchestrator ==
    OrchestratorInit /\ SupervisorConfigInit /\ ClockInit /\ ChannelsIdle /\ DetectorIdle /\ ConnectionIdle /\ StoreIdle /\ ManagerIdle

SpecOrchestrator == InitOrchestrator /\ [][OrchestratorNext]_vars

(***************************************************************************)
(* The detectors' claims (SpecDetector).                                   *)
(***************************************************************************)
\* the volumes in a symbol's window
WindowVolumes(s) ==
    IF detector = "stocks"
    THEN IF s \in DOMAIN data_store THEN data_store[s].recent_volumes ELSE <<>>
    ELSE IF s \in DOMAIN recent_data
         THEN [i \in 1..Len(recent_data[s]) |-> recent_data[s][i].volume]
         ELSE <<>>

Capacity == IF detector = "stocks" THEN EquityCapacity ELSE CryptoCapacity
Threshold == IF detector = "stocks" THEN EquityMultiple ELSE volume_threshold

\* a step that hands a tick to process_data / that emits an event
Processes == data' # data
Emits == Len(anomalies') > Len(anomalies)
\* the window's volumes the average of this step is taken over: the window
\* before the step, less what the append evicts
PriorVolumes == LastN(WindowVolumes(data'.symbol), Capacity - 1)
Accepted(d) == d.price > 0 /\ d.volume > 0

\* C5 as stated: an event is emitted only for a tick whose symbol's window
\* already held at least 5 observations before the tick was appended.
C5_FivePriorObservations ==
    [][Emits => Len(WindowVolumes(data'.symbol)) >= 5]_vars

\* C5 as amended: an event is emitted only for a tick whose symbol's window
\* already held at least 4 observations before the tick was appended (the
\* window holds at least 5 with the tick itself).
C5_FourPriorObservations ==
    [][Emits => Len(WindowVolumes(data'.symbol)) >= 4]_vars

\* an event emitted by the tick that brought its symbol's window to 5 entries
C5_Witness ==
    /\ anomalies # <<>>
    /\ anomalies[Len(anomalies)].timestamp = data.timestamp
    /\ Len(WindowVolumes(data.symbol)) = 5

\* C6: the equity detector fed 100,100,100,100,100,400 for one symbol (positive
\* prices) has emitted exactly one event for it, for the 400 tick, with
\* multiplier 4, and none before that tick; fed 100,100,100,400 it has
\* emitted none.
EventsOf(s) == SelectSeq(anomalies, LAMBDA e : e.symbol = s)
PositivePrices(s) == \A i \in 1..Len(data_store[s].recent_prices) : data_store[s].recent_prices[i] > 0

C6_SixthTickOneEvent ==
    \A s \in Symbols :
        (detector = "stocks" /\ s \in DOMAIN data_store /\ PositivePrices(s)) =>
            /\ WindowVolumes(s) = <<100, 100, 100, 100, 100>> => EventsOf(s) = <<>>
            /\ WindowVolumes(s) = <<100, 100, 100, 100, 100, 400>> =>
                  /\ Len(EventsOf(s)) = 1
                  /\ EventsOf(s)[1].type = "volume_spike"
                  /\ EventsOf(s)[1].current_volume = 400
                  /\ EventsOf(s)[1].average_volume = <<100, 1>>
                  /\ EventsOf(s)[1].multiplier = <<4, 1>>
            /\ WindowVolumes(s) = <<100, 100, 100, 400>> => EventsOf(s) = <<>>

C6_Witness ==
    /\ detector = "stocks"
    /\ "AAPL" \in DOMAIN data_store
    /\ data_store["AAPL"].recent_volumes = <<100, 100, 100, 100, 100, 400>>
    /\ Len(EventsOf("AAPL")) = 1

\* C7: after warm-up (5 observations before the tick) and with a non-zero
\* average, an accepted tick emits an event iff its volume is at least
\* threshold times the average of the window without it.
C7_InclusiveThreshold ==
    [][(/\ Processes
        /\ Accepted(data')
        /\ Len(WindowVolumes(data'.symbol)) >= 5
        /\ SumSeq(PriorVolumes) > 0)
       => (Emits <=> data'.volume * Len(PriorVolumes) >= Threshold * SumSeq(PriorVolumes))]_vars

\* C8: a tick processed when every earlier volume of its symbol's window is
\* zero emits no event and raises no division by zero.
C8_ZeroAverageSkipped ==
    [][(/\ Processes
        /\ PriorVolumes # <<>>
        /\ SumSeq(PriorVolumes) = 0)
       => (anomalies' = anomalies /\ proc_error' # "ZeroDivisionError")]_vars

\* C9: a tick with price <= 0 or volume <= 0 leaves the detector's state as
\* it was: no window changes and no event is emitted.
C9_NonPositiveIgnored ==
    [][(Processes /\ ~Accepted(data'))
       => UNCHANGED <<data_store, recent_data, anomalies>>]_vars

\* the events whose store_anomaly call returned True, in order
RECURSIVE StoredEvents(_, _)
StoredEvents(events, rets) ==
    IF events = <<>> THEN <<>>
    ELSE IF Head(rets) THEN <<Head(events)>> \o StoredEvents(Tail(events), Tail(rets))
         ELSE StoredEvents(Tail(events), Tail(rets))

C30_WindowInArrivalOrder ==
    \A s \in DOMAIN recent_data :
        \A p, q \in 1..Len(recent_data[s]) :
            p < q => recent_data[s][p].timestamp < recent_data[s][q].timestamp

\* a symbol's window as the processor holds it
Window(s) ==
    IF detector = "stocks"
    THEN IF s \in DOMAIN data_store THEN data_store[s] ELSE <<>>
    ELSE IF s \in DOMAIN recent_data THEN recent_data[s] ELSE <<>>

\* what the processor emits for a tick of s, from the volumes w of s's own
\* window with the tick in it
Detects(s, w, d) ==
    IF detector = "stocks" THEN check_for_anomalies(s, w, d).events
    ELSE check_volume_anomaly(s, w, d.volume, d.timestamp).events

\* the detector takes the tick into the window
Appends(d) == detector = "stocks" \/ ~CryptoIgnores(d)

\* C38: processing a tick of symbol A changes only A's window: every other
\* symbol's window is as it was, A's window is its own earlier window with
\* the tick appended, and what the tick emits is decided from A's window
\* alone, whatever ticks of other symbols came in between.
C38_PerSymbolIndependence ==
    [][Processes =>
          \A s \in Symbols \cup Pairs :
              IF s # data'.symbol THEN Window(s)' = Window(s)
              ELSE /\ WindowVolumes(s)' =
                          IF Appends(data')
                          THEN LastN(Append(WindowVolumes(s), data'.volume), Capacity)
                          ELSE WindowVolumes(s)
                   /\ anomalies' = anomalies \o
                          (IF Appends(data') THEN Detects(s, WindowVolumes(s)', data') ELSE <<>>)]_vars

\* the last tick, of BTC-USD, was detected, an ETH-USD tick having come in
\* between BTC-USD ticks
C38_Witness ==
    /\ detector = "crypto"
    /\ anomalies # <<>>
    /\ anomalies[Len(anomalies)].symbol = "BTC-USD"
    /\ anomalies[Len(anomalies)].timestamp = data.timestamp
    /\ "ETH-USD" \in DOMAIN recent_data
    /\ \E i \in 1..Len(recent_data["ETH-USD"]) :
          /\ recent_data["ETH-USD"][i].timestamp > recent_data["BTC-USD"][1].timestamp
          /\ recent_data["ETH-USD"][i].timestamp < data.timestamp

\* the same for the equity processor: an AAPL detection with MSFT in the store
C38_WitnessEquity ==
    /\ detector = "stocks"
    /\ anomalies # <<>>
    /\ anomalies[Len(anomalies)].symbol = "AAPL"
    /\ anomalies[Len(anomalies)].timestamp = data.timestamp
    /\ "MSFT" \in DOMAIN data_store
    /\ Len(data_store["AAPL"].recent_volumes) + Len(data_store["MSFT"].recent_volumes) = data.timestamp

\* C35: a symbol's window never holds more than its capacity (10 for
\* crypto, 20 for equities), and a tick the detector accepts goes to the end
\* of its symbol's window, the oldest observation leaving when the window
\* was full: the window is the most recent accepted observations.
C35_WindowHoldsMostRecent ==
    /\ \A s \in Symbols \cup Pairs : Len(WindowVolumes(s)) <= Capacity
    /\ [][Processes =>
             \A s \in Symbols \cup Pairs :
                 s = data'.symbol =>
                     WindowVolumes(s)' =
                         IF ~Appends(data') THEN WindowVolumes(s)
                         ELSE IF Len(WindowVolumes(s)) < Capacity
                              THEN Append(WindowVolumes(s), data'.volume)
                              ELSE Append(Tail(WindowVolumes(s)), data'.volume)]_vars

\* the equity window after 21 ticks: the first one is gone, the 20 after it
\* are there in order
C35_Witness ==
    /\ detector = "stocks"
    /\ data.timestamp = EquityCapacity + 1
    /\ WindowVolumes("AAPL") = [i \in 1..EquityCapacity |-> 101 + i]

\* the crypto window after 11 accepted ticks
C35_WitnessCrypto ==
    /\ detector = "crypto"
    /\ data.timestamp = CryptoCapacity + 1
    /\ WindowVolumes("BTC-USD") = [i \in 1..CryptoCapacity |-> 101 + i]

\* the positions in the log of what the n-th event caused
StoreCalls(n) == {p \in 1..Len(notified) : notified[p].op = "store_anomaly" /\ notified[p].event = n}
CallbackCalls(n) == {p \in 1..Len(notified) : notified[p].op = "callback" /\ notified[p].event = n}

\* C34: for every event the detector (equity or crypto) has emitted, every
\* registered callback was invoked once and the event was then persisted:
\* exactly one store call, made after all the callbacks of that event.
C34_CallbacksThenPersist ==
    \A n \in 1..Len(anomalies) :
        /\ Cardinality(CallbackCalls(n)) = Len(anomaly_callbacks)
        /\ Cardinality(StoreCalls(n)) = 1
        /\ \A p \in StoreCalls(n), q \in CallbackCalls(n) : q < p

(***************************************************************************)
(* The thread supervisor's claims (SpecManager).                           *)
(***************************************************************************)
\* the live transports of an asset class
LiveTransports(a) == {i \in 1..Len(threads) : threads[i].asset = a /\ Live(threads[i].client)}

\* C1: for each asset class at most one live transport exists at any time.
C1_OneLiveTransport == \A a \in DOMAIN streams : Cardinality(LiveTransports(a)) <= 1

\* the connection of the stream's current client is authenticated and has
\* its subscription out on an open transport
Streaming(c) == Live(c) /\ c.is_authenticated /\ c.sent # <<>> /\ c.sent[Len(c.sent)] = "subscribe"

StreamStreaming(a) == streams[a].client # 0 /\ Streaming(threads[streams[a].client].client)

\* the health loop starts a new worker for the asset in this step
Restarts(a) == mgr_pc = "monitor" /\ mgr_pc' = "sleep" /\ streams'[a].thread # streams[a].thread

\* C3: the health loop restarts a worker only if its connection is not
\* streaming: a worker whose connection is streaming (authenticated, the
\* subscription out, the transport open) is never restarted.
C3_StreamingNeverRestarted ==
    [][\A a \in DOMAIN streams : Restarts(a) => ~StreamStreaming(a)]_vars

\* the asset class's tier is none: no streaming entitlement
Blocked(a) == asset_subscriptions[a] \notin WEBSOCKET_ENABLED_TIERS

\* the asset classes main() asks the manager to start
Requested(a) ==
    IF asset_types = <<>> THEN a \in ClientKinds ELSE a \in Range(Selected(asset_types))

\* C23: once the manager has been started, a requested asset class has a
\* stream with a worker exactly when its entitlement is not blocked: the
\* blocked ones are skipped, every other requested one is started.
C23_BlockedSkippedOthersStarted ==
    mgr_pc \notin {"none", "created"} =>
        \A a \in ClientKinds :
            /\ (a \in DOMAIN streams) <=> (Requested(a) /\ ~Blocked(a))
            /\ a \in DOMAIN streams => streams[a].thread # 0

\* the worker threads a step starts
StartedThreads == {i \in 1..Len(threads') : i > Len(threads)}

\* C25: the supervisor starts or restarts an equity worker only while the
\* local time is inside the trading window.
C25_EquityOnlyInTradingWindow ==
    [][\A i \in StartedThreads : threads'[i].asset = "stocks" => market_open]_vars

\* a transport that nobody has told to close
Unsignalled(c) == c.ws \in {"connecting", "open"}

\* C26: shutdown tells every worker to close and ends with every worker
\* terminated: once stop_all has stopped the streams no worker is left on a
\* transport that was not told to close, and when the process is gone every
\* worker is finished and every transport closed.
C26_ShutdownReachesEveryWorker ==
    /\ mgr_pc = "joining" => \A i \in 1..Len(threads) : ~Unsignalled(threads[i].client)
    /\ mgr_pc = "exited" =>
          \A i \in 1..Len(threads) :
              threads[i].pc = "done" /\ threads[i].client.ws \in {"none", "closed"}

\* stop_all has been called
ShutdownRequested == mgr_pc \in {"joining", "exited"}

\* C40: once shutdown has been requested no worker is started or restarted
\* and no transport is opened: no thread is added and no client goes on to
\* connect or to an open socket.
C40_NothingStartsAfterShutdown ==
    [][ShutdownRequested =>
          /\ Len(threads') = Len(threads)
          /\ \A i \in 1..Len(threads) :
                 threads'[i].client.ws \in {"connecting", "open"} =>
                     threads'[i].client.ws = threads[i].client.ws]_vars

\* worker i goes into connect() in this step
Connects(i) == threads[i].client.ws = "none" /\ threads'[i].client.ws = "connecting"

\* C32: a restart is a cancel of the old worker followed by a fresh start:
\* a worker's client is a new connection object, and when a worker connects
\* the transport of every earlier worker of its asset class is closed.
C32_RestartCancelsOldWorker ==
    [][\A i \in 1..Len(threads) :
          /\ (threads[i].pc = "started" /\ threads'[i].pc = "running") =>
                 threads'[i].client = NewClient(threads[i].asset)
          /\ Connects(i) =>
                 \A j \in 1..(i - 1) :
                     threads[j].asset = threads[i].asset =>
                         threads[j].client.ws \in {"none", "closed"}]_vars

(***************************************************************************)
(* The process supervisor's claims (SpecOrchestrator).                     *)
(***************************************************************************)
\* the connection had its subscription out and its transport is closed
ClosedWhileStreaming(c) ==
    c.ws = "closed" /\ c.sent # <<>> /\ c.sent[Len(c.sent)] = "subscribe"

\* the asset's worker lost its transport while streaming
WorkerLostTransport(a) ==
    processes[a] # 0 /\ ClosedWhileStreaming(procs[processes[a]].client)

\* C2: once a worker's transport has closed while its connection was
\* streaming, the connection is disconnected (both flags down) and the next
\* pass of the supervisor's health loop, if the trading-window gate lets the
\* asset run, starts a new worker for it.
C2_ClosedWorkerRestarted ==
    [][\A a \in DOMAIN processes :
          WorkerLostTransport(a) =>
             /\ ~procs[processes[a]].client.is_connected
             /\ ~procs[processes[a]].client.is_authenticated
             /\ (orch_pc = "monitor" /\ orch_pc' = "sleep" /\ ~MarketClosedFor(a)
                   => processes'[a] # processes[a])]_vars

\* C24: no worker is ever started, or restarted by the monitor loop, for an
\* asset class whose tier is none.
C24_BlockedNeverStarted ==
    \A i \in 1..Len(procs) : ~Blocked(procs[i].asset)

(***************************************************************************)
(* The connection's claims (SpecConnection).                               *)
(***************************************************************************)
\* a step that dispatches a data message
Dispatches == inbound' # inbound

\* the items of the message, in arrival order
Arrived == [k \in 1..(inbound' - inbound) |-> inbound + k]

\* C4: every data message is delivered to every registered handler, whether
\* or not a handler before it raised, and dispatching leaves the connection
\* state (transport, is_connected, is_authenticated) as it was.
C4_RaisingHandlerIsolated ==
    [][Dispatches =>
          /\ \A i \in 1..Len(data_handlers) : calls'[i] = calls[i] \o Arrived
          /\ client' = client]_vars

\* a well-behaved handler registered after a raising one has received a message
C4_Witness ==
    /\ Len(data_handlers) >= 2
    /\ data_handlers[1] = "raises"
    /\ data_handlers[2] = "ok"
    /\ calls[1] # <<>>
    /\ calls[2] = calls[1]
    /\ client.ws = "open"

\* a step in which the crypto client's store_market_data call failed
WriteFailed ==
    /\ Dispatches
    /\ client.kind = "crypto"
    /\ market_data' = market_data

\* C18: when store_market_data fails it returns False and raises nothing: the
\* connection state is unchanged and the tick still goes to every
\* registered handler.
C18_FailedWriteStillDispatches ==
    [][WriteFailed =>
          /\ client' = client
          /\ \A i \in 1..Len(data_handlers) : calls'[i] = calls[i] \o Arrived]_vars

\* a tick whose write failed was handed to two handlers of an open connection
C18_Witness ==
    /\ client.kind = "crypto"
    /\ client.ws = "open"
    /\ inbound = 1
    /\ market_data = <<>>
    /\ Len(data_handlers) = 2
    /\ calls = <<(<<1>>), (<<1>>)>>

\* a subscribe request went out on the current transport
SubscribeSent == "subscribe" \in Range(client.sent)

\* C20: a connection is authenticated, and a subscribe request is on its
\* transport, only when that transport has delivered the auth_success
\* status: nothing is subscribed on a transport that was not acknowledged.
C20_SubscribeOnlyAfterAck ==
    (client.is_authenticated \/ SubscribeSent) => "auth_success" \in received

\* an equity connection whose owner subscribed after the acknowledgment
C20_Witness ==
    /\ client.kind = "stocks"
    /\ client.ws = "open"
    /\ client.sent = <<"auth", "subscribe">>
    /\ received = {"connected", "auth_success"}

\* a crypto connection that subscribed when the acknowledgment arrived
C20_WitnessCrypto ==
    /\ client.kind = "crypto"
    /\ client.ws = "open"
    /\ client.sent = <<"auth", "subscribe">>
    /\ received = {"auth_success"}

\* C21: a connection whose authentication was refused (a status other than
\* auth_success arrived while it was authenticating) is forced to close its
\* transport: it does not stay on an open transport, unauthenticated.
C21_RefusedAuthCloses ==
    ("auth" \in Range(client.sent) /\ "auth_failed" \in received /\ "auth_success" \notin received)
        => client.ws # "open"

\* the transport has been opened, or is being closed
Opened(c) == c.ws \in {"open", "closing"}

\* C22: when the transport closes, the connection is disconnected, with
\* is_connected and is_authenticated both cleared, and the connection opens
\* no new transport: a transport that was opened is never replaced and a
\* closed connection stays closed.
C22_ClosedStaysClosed ==
    [][/\ client'.ws = "closed" => (~client'.is_connected /\ ~client'.is_authenticated)
       /\ Opened(client) => client'.ws \in {"open", "closing", "closed"}
       /\ client.ws = "closed" => client'.ws = "closed"]_vars

\* an authenticated connection whose transport closed
C22_Witness ==
    /\ client.ws = "closed"
    /\ "auth_success" \in received
    /\ "subscribe" \in Range(client.sent)
    /\ ~client.is_connected
    /\ ~client.is_authenticated

\* the requests of one kind sent on the current transport
RequestsSent(kind) == {i \in 1..Len(client.sent) : client.sent[i] = kind}

\* C28: an open transport carries exactly one auth request, sent before any
\* subscribe request; no auth request exists without a transport open and
\* none is sent twice on one transport.
C28_OneAuthPerOpen ==
    /\ client.ws = "open" => Cardinality(RequestsSent("auth")) = 1
    /\ client.ws \in {"none", "connecting"} => RequestsSent("auth") = {}
    /\ Cardinality(RequestsSent("auth")) <= 1
    /\ \A i \in RequestsSent("subscribe") : \E j \in RequestsSent("auth") : j < i

\* C29: an authenticated transport carries exactly one subscribe request,
\* and no transport ever carries more than one.
C29_OneSubscribePerTransport ==
    /\ Cardinality(RequestsSent("subscribe")) <= 1
    /\ (client.kind = "crypto" /\ client.is_authenticated) =>
           Cardinality(RequestsSent("subscribe")) = 1

\* the calls are in the order p, q
Before(p, q) ==
    \/ dispatched[p].item < dispatched[q].item
    \/ dispatched[p].item = dispatched[q].item /\ dispatched[p].handler < dispatched[q].handler

OkArrays == UNION {[1..n -> BOOLEAN] : n \in 1..MaxItems}

\* C36: for every asset class every decoded data item drives both sinks: one
\* write to market_data (a row, when SQLite carries the write out) and one
\* call of every registered handler, the detector's among them.
C36_BothSinksPerTick ==
    [][\A oks \in OkArrays :
          DataMessage(oks) =>
              /\ Len(market_data') = Len(market_data) + Cardinality({k \in 1..Len(oks) : oks[k]})
              /\ \A i \in 1..Len(data_handlers) : Len(calls'[i]) = Len(calls[i]) + Len(oks)]_vars

(***************************************************************************)
(* The resolver's claims (SpecConfig).                                     *)
(***************************************************************************)
ValidEndpoint(a, url) ==
    \/ \E t \in WEBSOCKET_ENABLED_TIERS : url = WEBSOCKET_BASE_URLS[t] \o "/" \o a
    \/ url = env_url[a] /\ url \notin {Unset, ""}

\* C10: get_websocket_url raises when the asset class's tier is basic (no
\* WebSocket) and returns a valid endpoint on every other tier.
C10_ResolveFailsOnBasic ==
    result.op = "get_websocket_url" =>
        LET tier == asset_subscriptions[result.asset]
        IN  /\ tier = BASIC => ~result.ret.ok
            /\ tier # BASIC => result.ret.ok /\ ValidEndpoint(result.asset, result.ret.value)

\* the endpoint host of a tier: delayed for starter, real-time above it
HostOfTier(tier) ==
    IF tier = STARTER THEN "wss://delayed.polygon.io" ELSE "wss://socket.polygon.io"

\* C11: the endpoint get_websocket_url returns is the host of the asset
\* class's tier followed by the asset class, for every asset class and tier,
\* except crypto on starter, which gets the real-time host.
C11_HostDependsOnTier ==
    (result.op = "get_websocket_url" /\ result.ret.ok) =>
        LET a == result.asset
            tier == asset_subscriptions[a]
            host == IF a = "crypto" /\ tier = STARTER
                    THEN HostOfTier(DEVELOPER) ELSE HostOfTier(tier)
        IN  result.ret.value = host \o "/" \o a

\* the order none < delayed < realtime < realtime-plus
TierRank(tier) ==
    CASE tier = BASIC -> 0 [] tier = STARTER -> 1 [] tier = DEVELOPER -> 2 [] tier = ADVANCED -> 3

\* the minimum tier of a code: the restricted codes name theirs, every other
\* code is open to all tiers
RequiredRank(code) ==
    CASE code = "XL2" -> 3
      [] code \in {"AS", "XAS", "T", "XT", "Q", "XQ"} -> 2
      [] OTHER -> 0

\* every code of the configuration and one code no asset class knows
CodeUniverse == UNION {Range(DATA_TYPES[a]) : a \in AssetType} \cup {"ZZ"}

\* C12: a code is in the available set of an asset class iff it is a code of
\* that asset class and its minimum tier is at most the asset class's tier.
C12_AvailableIffTierSuffices ==
    (result.op = "get_available_data_types" /\ ~result.include_restricted) =>
        \A code \in CodeUniverse :
            code \in Range(result.ret.value) <=>
                /\ code \in Range(DATA_TYPES[result.asset])
                /\ RequiredRank(code) <= TierRank(asset_subscriptions[result.asset])

\* crypto on the developer tier: XT is available, XL2 is not, and the equity
\* code T is not a crypto code
C12_Witness ==
    /\ result.op = "get_available_data_types"
    /\ ~result.include_restricted
    /\ result.asset = "crypto"
    /\ asset_subscriptions["crypto"] = DEVELOPER
    /\ "XT" \in Range(result.ret.value)
    /\ "XL2" \notin Range(result.ret.value)
    /\ "T" \notin Range(result.ret.value)

\* tier settings that name no tier in any spelling
InvalidSettings == {"premium", ""}

\* one tier per asset class; a missing or invalid setting gives basic, a
\* tier's own name gives that tier
Resolved ==
    /\ DOMAIN asset_subscriptions = AssetType
    /\ \A a \in AssetType :
          /\ asset_subscriptions[a] \in SubscriptionTier
          /\ env_tier[a] \in InvalidSettings \cup {Unset} => asset_subscriptions[a] = BASIC
          /\ env_tier[a] \in SubscriptionTier => asset_subscriptions[a] = env_tier[a]

\* C27: after the configuration is loaded every asset class has exactly one
\* tier, basic (no access) when its setting is missing or names no tier,
\* and no later call changes the mapping.
C27_OneTierPerAsset ==
    /\ Resolved
    /\ [][Resolved' /\ asset_subscriptions' = asset_subscriptions]_vars

\* an asset class with an unknown tier name, after a call on the configuration
C27_Witness ==
    /\ result # NoResult
    /\ \E a \in AssetType : env_tier[a] = "premium" /\ asset_subscriptions[a] = BASIC

\* C39: resolver and channel builder agree: whenever get_websocket_url
\* returns an endpoint for an asset class (an endpoint override included),
\* get_subscription_channels with data_types omitted succeeds for it.
C39_ResolvedCanSubscribe ==
    (result.op = "get_websocket_url" /\ result.ret.ok) =>
        \A symbols \in SeqsUpTo(RequestSymbols, MaxSymbols) :
            get_subscription_channels(result.asset, symbols, FALSE, <<>>, <<>>).ok

(***************************************************************************)
(* The channel builder's claims (SpecChannels).                            *)
(***************************************************************************)
\* the codes a request asks for: its data_types, or the default of its asset
\* class when data_types is omitted
DefaultCode(a) ==
    CASE a = "stocks" -> "A" [] a = "crypto" -> "XA" [] a = "forex" -> "C"
      [] a = "indices" -> "V" [] a = "options" -> "A" [] a = "futures" -> "A"

RequestedCodes == IF request.given THEN request.data_types ELSE <<DefaultCode(request.asset)>>

\* the availability filter of C12
AvailableTo(a, code) ==
    /\ code \in Range(DATA_TYPES[a])
    /\ RequiredRank(code) <= TierRank(asset_subscriptions[a])

\* C13: if any requested code is not available to the asset class, every
\* call raises ValueError and returns no channel at all, wherever the
\* unavailable code stands in the request.
C13_AllOrNothing ==
    (\E code \in Range(RequestedCodes) : ~AvailableTo(request.asset, code)) =>
        \A i \in 1..Len(returns) : ~returns[i].ok /\ returns[i].error = "ValueError"

\* an available code first and an unavailable one second, on a tier with
\* WebSocket access: the call raised
C13_Witness ==
    /\ returns # <<>>
    /\ asset_subscriptions[request.asset] = STARTER
    /\ request.asset = "stocks"
    /\ request.data_types = <<"A", "T">>
    /\ Len(request.symbols) = 2
    /\ ~returns[1].ok

\* C14: a successful call returns the product of codes and symbols as
\* "code.symbol", codes outer and symbols inner, in the orders given.
C14_CodesOuterProduct ==
    \A k \in 1..Len(returns) :
        returns[k].ok =>
            LET codes == RequestedCodes
                n == Len(request.symbols)
            IN  /\ Len(returns[k].value) = Len(codes) * n
                /\ \A i \in 1..Len(codes), j \in 1..n :
                      returns[k].value[(i - 1) * n + j] = codes[i] \o "." \o request.symbols[j]

\* two different codes and two different symbols, built
C14_Witness ==
    /\ returns # <<>>
    /\ returns[1].ok
    /\ request.data_types = <<"T", "A">>
    /\ request.symbols = <<"MSFT", "AAPL">>
    /\ returns[1].value = <<"T.MSFT", "T.AAPL", "A.MSFT", "A.AAPL">>

\* C15: with data_types omitted, a call on an asset class with WebSocket
\* access returns one channel per symbol, each with the one default code of
\* the asset class.
C15_SingleDefaultCode ==
    ~request.given =>
        \A k \in 1..Len(returns) :
            /\ returns[k].ok <=> asset_subscriptions[request.asset] # BASIC
            /\ returns[k].ok =>
                  /\ Len(returns[k].value) = Len(request.symbols)
                  /\ \A j \in 1..Len(request.symbols) :
                        returns[k].value[j] = DefaultCode(request.asset) \o "." \o request.symbols[j]

\* crypto with data_types omitted: XA for both symbols
C15_Witness ==
    /\ ~request.given
    /\ request.asset = "crypto"
    /\ returns # <<>>
    /\ returns[1].ok
    /\ returns[1].value = <<"XA.AAPL", "XA.MSFT">>

RECURSIVE CallsDue(_, _)
CallsDue(items, size) ==
    IF items = <<>> THEN <<>>
    ELSE (IF Head(items).shape = "aggregate"
          THEN [k \in 1..Len(data_handlers) |->
                   [handler |-> k, item |-> Head(items), array |-> size]]
          ELSE <<>>) \o CallsDue(Tail(items), size)

\* C31: a malformed inbound message, or a malformed item of an inbound
\* array, is dropped on its own: the connection stays as it was and every
\* well-formed item of the same array is still dispatched to every handler.
C31_MalformedDroppedAlone ==
    [][\A msg \in Messages(client.kind) :
          InboundMessage(msg) =>
              /\ client' = client
              /\ dispatched' = dispatched \o CallsDue(msg.items, Len(msg.items))]_vars

\* the symbols the connection has subscribed to
Subscribed ==
    IF client.kind = "stocks" THEN client.subscribed_symbols
    ELSE IF "subscribe" \in Range(client.sent) THEN Range(client.symbols) ELSE {}

\* C33: every tick the worker persists or hands to a handler has a symbol
\* of the set the worker subscribed to.
C33_TickSymbolSubscribed ==
    /\ \A p \in 1..Len(dispatched) : dispatched[p].item.symbol \in Subscribed
    /\ \A p \in 1..Len(market_data) : market_data[p].symbol \in Subscribed
    /\ \A p \in 1..Len(data_buffer) : data_buffer[p].symbol \in Subscribed

\* a code of the request asks for more than the tier of the client's class
Unauthorized(kind, data_types) ==
    \E i \in 1..Len(data_types) : RequiredRank(data_types[i]) > TierRank(asset_subscriptions[kind])

\* C37: a subscribe request that names a code the tier does not authorize
\* is rejected before any I/O: the builder refuses it, nothing is sent on
\* the transport and the subscribed symbols stay as they were; so does any
\* request the builder refuses.
C37_UnauthorizedRejectedBeforeIO ==
    /\ (result.op = "subscribe" /\ Unauthorized(client.kind, result.data_types)) => ~result.ret
    /\ [][(result'.op \in {"subscribe", "subscribe_to_data"} /\ result' # result /\ ~result'.ret) =>
              /\ client'.sent = client.sent
              /\ client'.subscribed_symbols = client.subscribed_symbols
              /\ client'.symbols = client.symbols]_vars

\* an equity client below the developer tier was asked for trades: the
\* request was refused, only the auth request is on the transport and no
\* symbol is subscribed
C37_Witness ==
    /\ client.kind = "stocks"
    /\ result.op = "subscribe"
    /\ result.data_types = <<"A", "T">>
    /\ asset_subscriptions["stocks"] = STARTER
    /\ ~result.ret
    /\ client.sent = <<"auth">>
    /\ client.subscribed_symbols = {}

(***************************************************************************)
(* The persistence store's claims (SpecStore).                             *)
(***************************************************************************)
\* the rows of market_data with a given (timestamp, symbol)
RowsOf(timestamp, symbol) ==
    Cardinality({i \in 1..Len(market_data) :
                    market_data[i].timestamp = timestamp /\ market_data[i].symbol = symbol})

\* the store_market_data calls for a symbol that returned True: all of
\* them, and those that wrote a given timestamp
LiveWrites(symbol) ==
    {i \in 1..Len(db_log) :
        db_log[i].op = "store_market_data" /\ db_log[i].symbol = symbol /\ db_log[i].ok}

LiveWritesAt(timestamp, symbol) == {i \in LiveWrites(symbol) : db_log[i].now = timestamp}

\* a store_to_database call that went through had a row with this key
Upserted(timestamp, symbol) ==
    \E i \in 1..Len(db_log) :
        /\ db_log[i].op = "store_to_database" /\ db_log[i].symbol = symbol /\ db_log[i].ok
        /\ timestamp \in Range(db_log[i].df)

\* C17: however often store_to_database is given a (timestamp, symbol), the
\* table holds exactly one row of that key (when no live write put one
\* there), whereas n store_market_data calls for the same tick that return
\* True leave n rows.
C17_UpsertOnceWriteEach ==
    \A symbol \in StoreSymbols :
        /\ \A t \in BarTimes :
              (Upserted(t, symbol) /\ LiveWritesAt(t, symbol) = {}) => RowsOf(t, symbol) = 1
        /\ Cardinality({i \in 1..Len(market_data) : market_data[i].raw_data = StreamTick(symbol)})
              = Cardinality(LiveWrites(symbol))

\* the same key given to store_to_database in two calls
C17_Witness ==
    /\ Len(db_log) = 2
    /\ db_log[1].op = "store_to_database" /\ db_log[1].ok /\ db_log[1].ret = 1
    /\ db_log[2].op = "store_to_database" /\ db_log[2].ok /\ db_log[2].ret = 0
    /\ db_log[1].symbol = db_log[2].symbol
    /\ db_log[1].df = db_log[2].df
    /\ Len(market_data) = 1

\* the same tick written twice: two rows
C17_WitnessWrites ==
    /\ Len(db_log) = 2
    /\ \A i \in 1..2 : db_log[i].op = "store_market_data" /\ db_log[i].ok
    /\ db_log[1].symbol = db_log[2].symbol
    /\ db_log[1].now = db_log[2].now
    /\ Len(market_data) = 2

====
